---- MODULE Spec2Model ----
(***************************************************************************)
(* Model of the Telegram e-learning bot's publishing core: the lesson      *)
(* selector and repository, the resilience service with its circuit        *)
(* breakers, the bot controller's retried send and the scheduler's daily   *)
(* publish pipeline.                                                       *)
(***************************************************************************)
EXTENDS Integers, Sequences, FiniteSets, TLC

\* ------------------------------------------------------------------ bounds
NumLessons == 2        \* at most this many lessons in the store
MaxUsage == 2          \* a lesson is marked used at most this many times
MaxRuns == 2           \* executions of the daily pipeline that are started
MaxRetry == 5          \* largest retry_attempts of the send specification
MaxRecoveries == 1     \* dispatches of telegram_api_recovery
MaxFailures == 6       \* failures a breaker's clients record
MaxMissed == 2         \* EVENT_JOB_MISSED events that are delivered
MaxStarts == 6         \* executions of one recovery action that are started
NumRotLessons == 3     \* at most this many lessons in the rotation's store

\* --------------------------------------------------------------- constants
cycle_days == 30               \* LessonSelector.__init__ default
DaySeconds == 86400            \* seconds in one day (timedelta.days)
Null == -1                     \* None for a timestamp
NoLesson == 0                  \* None for a lesson
NoCategory == "none"           \* None for a category
default_retry_attempts == 3    \* Config.retry_attempts default
retry_delay == 60              \* Config.retry_delay default, in seconds
network_reconnection_sleep == 5    \* the sleep inside network_reconnection
quiz_delay_minutes == 5        \* Config.quiz_delay_minutes default

categories == <<"grammar", "vocabulary", "common_mistakes">>
CategorySet == {categories[i] : i \in 1..Len(categories)}
SelectionStrategy == {"unused_first", "least_recent", "category_rotation"}
SelTickDays == {15, 16}        \* day steps of the selector's clock

LessonIds == 1..NumLessons
MaxPicks == NumLessons + 1     \* consecutive get_next_lesson calls that are tracked
MaxDay == cycle_days + 1       \* the selector's clock stops one day past the cycle

\* ------------------------------------------------------------------- state
VARIABLES
    lessons,        \* the lessons table: id -> [category, last_used, usage_count]
    last_category,  \* LessonSelector._last_category
    now,            \* datetime.utcnow(), in seconds
    picks,          \* results of consecutive get_next_lesson(UNUSED_FIRST) calls that began with every lesson unused
    lastPick,       \* the get_next_lesson call just made: arguments, result, the result's age
    circuit_breakers,       \* ResilienceService.circuit_breakers
    consecutive_failures,   \* ResilienceService.consecutive_failures
    network_error_count,    \* ResilienceService.network_error_count
    action_history,         \* ResilienceService.action_history
    recovery,               \* position of a dispatched telegram_api_recovery
    retry_attempts,         \* BotController.retry_attempts
    runs,                   \* the executions of _execute_daily_post, by origin
    nruns,                  \* executions started so far
    delivered,              \* per lesson, the send_message calls that succeeded
    posting_history,        \* the rows of the posting_history table
    lastReturn,             \* the execution that returned in the latest step, with what its send returned
    jobs,                   \* the jobs of the APScheduler job store, in the order added
    missed_tasks,           \* trigger_immediate_post tasks created by the missed-job listener and not started yet
    config,                 \* Config: posting_time, timezone, enable_quizzes
    running,                \* SchedulerService._running
    missed_events,          \* EVENT_JOB_MISSED events handled so far, for the daily job and for quiz jobs
    lastCall,               \* the reschedule_daily_posting call just made: its result, and its arguments if it returned True
    lastDispatch,           \* the recovery action this behaviour's clients dispatch, and what the latest dispatch saw and returned
    executing,              \* executions of that action that are at their sleep
    current_mode,           \* ResilienceService.current_mode
    lastSample,             \* the resource usage the latest _check_resource_constraints read
    rotation,               \* category of the lesson the latest unfiltered CATEGORY_ROTATION call returned since construction or reset
    lastCheck,              \* what the check_cycle_reset_needed call just made returned, and whether it follows a reset_usage_cycle
    shutdown,               \* how far main_async is with its shutdown
    validated,              \* BotController._validated
    lastInit,               \* the initialize() call just made: what its two checks found, what it returned
    candidate,              \* the Config that config.validate() is asked about
    lastValidate,           \* what Config.validate just did: "ok" or "error"
    started_by,             \* the entry point that started the process
    lastHandled             \* the handle_operation_failure call just made: its severity, the action it dispatched, whether that action ran, and what the call returned

selVars == <<lessons, last_category, picks, lastPick>>
resVars == <<circuit_breakers, consecutive_failures, network_error_count,
             action_history, recovery>>
runVars == <<retry_attempts, runs, nruns, delivered, posting_history,
            lastReturn>>
jobVars == <<config, running, missed_events, lastCall>>
schedVars == <<jobs, missed_tasks, jobVars>>
callVars == <<rotation, lastCheck>>
procVars == <<shutdown, validated, lastInit, candidate, lastValidate,
              started_by, lastHandled>>
otherVars == <<lastDispatch, executing, current_mode, lastSample, callVars,
               procVars>>
vars == <<lessons, last_category, now, picks, lastPick, circuit_breakers,
          consecutive_failures, network_error_count, action_history, recovery,
          retry_attempts, runs, nruns, delivered, posting_history, lastReturn,
          jobs, missed_tasks, config, running, missed_events, lastCall,
          lastDispatch, executing, current_mode, lastSample, rotation,
          lastCheck, shutdown, validated, lastInit, candidate, lastValidate,
          started_by, lastHandled>>

\* ----------------------------------------------------------------- helpers
RECURSIVE SortedSeq(_)
\* the ids of S in creation order (ORDER BY created_at; ids are assigned in
\* creation order)
SortedSeq(S) ==
    IF S = {} THEN <<>>
    ELSE LET m == CHOOSE x \in S : \A y \in S : x <= y
         IN <<m>> \o SortedSeq(S \ {m})

Min2(a, b) == IF a <= b THEN a ELSE b

\* timedelta.days of (a - b), a >= b
DaysBetween(a, b) == (a - b) \div DaySeconds

\* ------------------------------------------------------- lesson repository
get_lesson_count(ls) == Cardinality(DOMAIN ls)

\* get_unused_lessons without its WHERE clause
get_unused_lessons_all(ls) == SortedSeq(DOMAIN ls)

\* SELECT * FROM lessons WHERE last_used IS NULL ORDER BY created_at
get_unused_lessons(ls) ==
    SortedSeq({l \in DOMAIN ls : ls[l].last_used = Null})

\* SELECT * FROM lessons WHERE category = ? ORDER BY created_at
get_lessons_by_category(ls, c) ==
    SortedSeq({l \in DOMAIN ls : ls[l].category = c})

\* SELECT * FROM lessons WHERE last_used IS NOT NULL ORDER BY last_used ASC
\* LIMIT 1: the rows the query may return (SQL leaves the order of equal
\* last_used values open); {NoLesson} when no row qualifies
get_least_recently_used_lesson(ls) ==
    LET used == {l \in DOMAIN ls : ls[l].last_used # Null}
    IN IF used = {} THEN {NoLesson}
       ELSE {l \in used : \A m \in used : ls[l].last_used <= ls[m].last_used}

\* Lesson.mark_used followed by update_lesson
mark_lesson_used_count(ls, l, t) ==
    IF l \in DOMAIN ls
    THEN [ls EXCEPT ![l] = [@ EXCEPT !.usage_count = @ + 1]]
    ELSE ls
mark_lesson_used(ls, l, t) ==
    IF l \in DOMAIN ls
    THEN [ls EXCEPT ![l] = [@ EXCEPT !.last_used = t,
                                      !.usage_count = @ + 1]]
    ELSE ls

\* UPDATE lessons SET last_used = NULL, usage_count = 0
reset_usage_cycle_counts(ls) ==
    [l \in DOMAIN ls |-> [ls[l] EXCEPT !.usage_count = 0]]
reset_usage_cycle(ls) ==
    [l \in DOMAIN ls |-> [ls[l] EXCEPT !.last_used = Null, !.usage_count = 0]]

\* --------------------------------------------------------- lesson selector
\* key of the sort in _select_least_recent: last_used or datetime.min
LastUsedKey(ls, l) == ls[l].last_used

RECURSIVE FirstMin(_, _)
\* first element of a stably sorted list: the first id of s with the least key
FirstMin(ls, s) ==
    IF Len(s) = 1 THEN s[1]
    ELSE LET r == FirstMin(ls, Tail(s))
         IN IF LastUsedKey(ls, s[1]) <= LastUsedKey(ls, r) THEN s[1] ELSE r

\* _select_least_recent: the set of lessons the call may return
SelectLeastRecent(ls, category_filter) ==
    IF category_filter # NoCategory
    THEN LET category_lessons == get_lessons_by_category(ls, category_filter)
         IN IF category_lessons = <<>> THEN {NoLesson}
            ELSE {FirstMin(ls, category_lessons)}
    ELSE get_least_recently_used_lesson(ls)

\* _select_unused_first
SelectUnusedFirst(ls, category_filter) ==
    LET unused == get_unused_lessons(ls)
        unused_lessons ==
            IF category_filter # NoCategory
            THEN SelectSeq(unused, LAMBDA l : ls[l].category = category_filter)
            ELSE unused
    IN IF unused_lessons # <<>> THEN {unused_lessons[1]}
       ELSE SelectLeastRecent(ls, category_filter)

\* check_cycle_reset_needed at time t
check_cycle_reset_needed_strict(ls, t) ==
    IF get_unused_lessons(ls) # <<>> THEN FALSE
    ELSE \E oldest_lesson \in get_least_recently_used_lesson(ls) :
            /\ oldest_lesson # NoLesson
            /\ DaysBetween(t, ls[oldest_lesson].last_used) > cycle_days
check_cycle_reset_needed(ls, t) ==
    IF get_unused_lessons(ls) # <<>> THEN FALSE
    ELSE \E oldest_lesson \in get_least_recently_used_lesson(ls) :
            /\ oldest_lesson # NoLesson
            /\ DaysBetween(t, ls[oldest_lesson].last_used) >= cycle_days

CategoryIndex(c) == CHOOSE i \in 1..Len(categories) : categories[i] = c

\* the category _select_category_rotation turns to first
TargetCategory_first(category_filter, lastcat) ==
    IF category_filter # NoCategory THEN category_filter ELSE categories[1]
TargetCategory(category_filter, lastcat) ==
    IF category_filter # NoCategory THEN category_filter
    ELSE IF lastcat = NoCategory THEN categories[1]
    ELSE IF lastcat \in CategorySet
         THEN categories[(CategoryIndex(lastcat) % Len(categories)) + 1]
         ELSE categories[1]

RECURSIVE ProbeCategories(_, _, _)
\* the for loop of _select_category_rotation over the other categories,
\* from index i on: <<lesson, category>> of the first hit
ProbeCategories(ls, target, i) ==
    IF i > Len(categories) THEN <<NoLesson, NoCategory>>
    ELSE IF categories[i] = target THEN ProbeCategories(ls, target, i + 1)
    ELSE LET r == SelectUnusedFirst(ls, categories[i])
             l == CHOOSE x \in r : TRUE
         IN IF l # NoLesson THEN <<l, categories[i]>>
            ELSE ProbeCategories(ls, target, i + 1)

\* _select_category_rotation: <<lesson, the new _last_category>>
SelectCategoryRotation(ls, category_filter, lastcat) ==
    LET target == TargetCategory(category_filter, lastcat)
        l == CHOOSE x \in SelectUnusedFirst(ls, target) : TRUE
    IN IF l # NoLesson THEN <<l, target>>
       ELSE LET p == ProbeCategories(ls, target, 1)
            IN IF p[1] # NoLesson THEN p ELSE <<NoLesson, lastcat>>

\* get_next_lesson: the set of <<lesson, new _last_category>> outcomes
GetNextLesson(ls, strategy, category_filter, lastcat) ==
    IF get_lesson_count(ls) = 0 THEN {<<NoLesson, lastcat>>}
    ELSE IF strategy = "unused_first"
         THEN {<<l, lastcat>> : l \in SelectUnusedFirst(ls, category_filter)}
    ELSE IF strategy = "least_recent"
         THEN {<<l, lastcat>> : l \in SelectLeastRecent(ls, category_filter)}
    ELSE {SelectCategoryRotation(ls, category_filter, lastcat)}

\* ------------------------------------------------------- the lesson store
NoPick == [lesson |-> NoLesson, strategy |-> "none", filter |-> NoCategory,
           age |-> Null]

\* the category of lesson l: the import goes round the categories
CategoryOf(l) == categories[((l - 1) % Len(categories)) + 1]

NewLesson(c) == [category |-> c, last_used |-> Null, usage_count |-> 0]

\* lessons are imported unused; the store holds lessons 1..n
InitLessons ==
    \E n \in 0..NumLessons :
        lessons = [l \in 1..n |-> NewLesson(CategoryOf(l))]

\* ------------------------------------------------------ resilience service
BreakerNames == {"telegram_api", "scheduler"}
failure_threshold == 5                  \* get_circuit_breaker_state
breaker_timeout == 300                  \* get_circuit_breaker_state
consecutive_failure_threshold == 5      \* ResourceThresholds
network_error_threshold == 3            \* ResourceThresholds
cpu_normal_max == 70                    \* ResourceThresholds, percent
cpu_degraded_max == 85
cpu_minimal_max == 95
memory_normal_max == 75
memory_degraded_max == 85
memory_minimal_max == 95
disk_normal_max == 80
disk_degraded_max == 90
disk_minimal_max == 95
SystemMode == {"normal", "degraded", "minimal", "emergency"}
ErrorSeverity == {"low", "medium", "high", "critical"}
TickSeconds == breaker_timeout + 1      \* the pipeline's clock steps past the timeout
MaxClock == TickSeconds                 \* the pipeline's clock stops here
SweepSeconds == breaker_timeout         \* the breakers' clock steps to the timeout
MaxSweepClock == 2 * breaker_timeout    \* and stops one step past it

\* a breaker that no call has named yet, and the breaker the first call creates
AbsentBreaker == [state |-> "absent", failure_count |-> 0, last_failure |-> Null]
NewBreaker == [state |-> "closed", failure_count |-> 0, last_failure |-> Null]

\* the registry of recovery actions: the defaults of ResilienceService and the
\* custom actions of SystemIntegrationService
RecoveryActions ==
    [network_reconnection |-> [cooldown_seconds |-> 60, max_attempts |-> 5],
     cleanup_resources |-> [cooldown_seconds |-> 300, max_attempts |-> 3],
     aggressive_cleanup |-> [cooldown_seconds |-> 600, max_attempts |-> 2],
     emergency_cleanup |-> [cooldown_seconds |-> 1800, max_attempts |-> 1],
     telegram_api_recovery |-> [cooldown_seconds |-> 300, max_attempts |-> 3]]
ActionNames == DOMAIN RecoveryActions

\* the first use of a breaker name creates it closed
InitBreaker(cb, name) ==
    IF cb[name].state = "absent" THEN [cb EXCEPT ![name] = NewBreaker] ELSE cb

get_circuit_breaker_state(cb, name) == InitBreaker(cb, name)[name].state

\* the gate of resilient_operation and of _send_with_retry
BreakerBlocks_never(cb, name) == FALSE
BreakerBlocks(cb, name) == get_circuit_breaker_state(cb, name) = "open"

record_circuit_breaker_success(cb, name) ==
    IF cb[name].state = "half_open"
    THEN [cb EXCEPT ![name].state = "closed", ![name].failure_count = 0]
    ELSE IF cb[name].state = "closed"
    THEN [cb EXCEPT ![name].failure_count = 0]
    ELSE cb

record_circuit_breaker_failure(cb, name, t) ==
    LET c == InitBreaker(cb, name)
        n == c[name].failure_count + 1
    IN [c EXCEPT ![name] = [state |-> IF n >= failure_threshold THEN "open"
                                      ELSE c[name].state,
                            failure_count |-> n,
                            last_failure |-> t]]

\* the open breakers whose timeout has passed
SweepDue_at(b, t) == b.state = "open" /\ t - b.last_failure >= breaker_timeout
SweepDue(b, t) == b.state = "open" /\ t - b.last_failure > breaker_timeout

\* _update_circuit_breakers
UpdateCircuitBreakers(cb, t) ==
    [n \in BreakerNames |->
        IF SweepDue(cb[n], t)
        THEN [cb[n] EXCEPT !.state = "half_open", !.failure_count = 0]
        ELSE cb[n]]

\* the body of telegram_api_recovery after its sleep:
\* circuit_breakers.get('telegram_api', {})['failure_count'] = 0
TelegramApiRecoveryEffect(cb) ==
    IF cb["telegram_api"].state = "absent" THEN cb
    ELSE [cb EXCEPT !["telegram_api"].failure_count = 0]

\* the attempts of an action that still count against its cooldown
RecentAttempts(hist, name, t) ==
    SelectSeq(hist[name],
              LAMBDA a : t - a < RecoveryActions[name].cooldown_seconds)

\* _execute_recovery_action goes past its cooldown check
RecoveryAllowed_always(hist, name, t) == name \in ActionNames
RecoveryAllowed(hist, name, t) ==
    /\ name \in ActionNames
    /\ Len(RecentAttempts(hist, name, t)) < RecoveryActions[name].max_attempts

\* the action handle_operation_failure picks for a severity
ActionForSeverity(severity) ==
    IF severity = "critical" THEN "emergency_recovery"
    ELSE IF severity = "high" THEN "system_restart"
    ELSE "service_restart"

\* The resilience state as one record rs = [cb, cf, ne, hist, rep]:
\* circuit_breakers, consecutive_failures, network_error_count, action_history,
\* and the severities handle_operation_failure was called with in this step.

\* _execute_recovery_action for the actions that do not suspend
ExecuteRecoveryAction(rs, name, t) ==
    IF ~RecoveryAllowed(rs.hist, name, t) THEN rs
    ELSE LET r == [rs EXCEPT !.hist[name] = Append(@, t)]
         IN IF name = "emergency_cleanup"
            THEN [r EXCEPT !.cf = 0, !.ne = 0]
            ELSE r

\* handle_operation_failure
HandleOperationFailure(rs, severity, t) ==
    LET r == [rs EXCEPT !.cf = @ + 1, !.rep = Append(@, severity)]
    IN IF r.cf >= consecutive_failure_threshold
       THEN ExecuteRecoveryAction(r, ActionForSeverity(severity), t)
       ELSE r

\* resilient_operation when its body ends normally
OperationSucceeded(rs, service_name) ==
    [rs EXCEPT !.cb = record_circuit_breaker_success(@, service_name),
               !.cf = 0]

\* resilient_operation when its body raises
OperationFailed(rs, service_name, t) ==
    HandleOperationFailure(
        [rs EXCEPT !.cb = record_circuit_breaker_failure(@, service_name, t)],
        "medium", t)

\* --------------------------------------- bot controller: _send_with_retry
Free == Null                             \* a run whose channel answers freely
Slots == {"cron", "manual"}
Outcomes == {"ok", "bad_request", "retry_after", "timed_out",
             "telegram_error", "unexpected"}
TransientKinds == {"timed_out", "telegram_error"}
RetryAfterValues == {1, 90}              \* the retry_after a RetryAfter carries

\* one execution of _execute_daily_post: where it stands, and what its
\* send returned
IdleRun == [pc |-> "idle", lesson |-> NoLesson, attempt |-> 0,
            requests |-> 0, sleeps |-> 0, f |-> Free, kind |-> "none",
            nfail |-> 0, clean |-> FALSE, result |-> "none", attempts |-> 0,
            permanent_error |-> FALSE, circuit_breaker_open |-> FALSE,
            wait |-> 0, last |-> "ok", outcome |-> "none", sleep_log |-> <<>>,
            reports |-> <<>>, history |-> <<>>, failures_before |-> 0,
            consecutive_before |-> 0]

\* the calls, sleeps and failures of a run are counted when its channel is
\* scripted, and the 'telegram_api' breaker's failure_count at the start of
\* such a run is kept in failures_before, consecutive_failures at its start
\* in consecutive_before
Count(run, n) == IF run.f = Free THEN n ELSE n + 1

\* the asyncio.sleep calls of a scripted run, in order
Slept(run, why, secs) ==
    IF run.f = Free THEN run.sleep_log
    ELSE Append(run.sleep_log,
                [why |-> why, secs |-> secs, attempt |-> run.attempt])

RS == [cb |-> circuit_breakers, cf |-> consecutive_failures,
       ne |-> network_error_count, hist |-> action_history, rep |-> <<>>]

SetRS(rs) ==
    /\ circuit_breakers' = rs.cb
    /\ consecutive_failures' = rs.cf
    /\ network_error_count' = rs.ne
    /\ action_history' = rs.hist

\* the dictionary _send_with_retry returns
SendReturn(run, ok, attempts, permanent, breaker_open) ==
    [run EXCEPT !.pc = "returned",
                !.result = IF ok THEN "success" ELSE "failure",
                !.attempts = attempts,
                !.permanent_error = permanent,
                !.circuit_breaker_open = breaker_open]

\* the code after the loop: every attempt failed
RetriesExhausted(run, rs, R, t) ==
    [run |-> SendReturn(run, FALSE, R + 1, FALSE, FALSE),
     rs |-> HandleOperationFailure(
                [rs EXCEPT !.cb = record_circuit_breaker_failure(
                                      @, "telegram_api", t)],
                "high", t)]

\* the top of loop iteration `attempt`: resilient_operation either raises
\* RuntimeError, which `except Exception` turns into a failure, or lets the
\* request go out
BeginAttempt(run, rs, attempt, R, t) ==
    IF attempt > R THEN RetriesExhausted(run, rs, R, t)
    ELSE IF BreakerBlocks(rs.cb, "telegram_api")
    THEN [run |-> SendReturn([run EXCEPT !.attempt = attempt], FALSE,
                             attempt + 1, FALSE, FALSE),
          rs |-> HandleOperationFailure(rs, "critical", t)]
    ELSE [run |-> [run EXCEPT !.pc = "sending", !.attempt = attempt,
                              !.requests = Count(run, @)],
          rs |-> [rs EXCEPT !.cb = InitBreaker(@, "telegram_api")]]

\* _send_with_retry up to its first suspension
SendWithRetry(run, rs, R, t) ==
    IF BreakerBlocks(rs.cb, "telegram_api")
    THEN [run |-> SendReturn(run, FALSE, 0, FALSE, TRUE), rs |-> rs]
    ELSE BeginAttempt(run, rs, 0, R, t)

\* handle_network_error starts network_reconnection
ReconnectionStarts(rs, t) ==
    /\ rs.ne >= network_error_threshold
    /\ RecoveryAllowed(rs.hist, "network_reconnection", t)

\* wait_time = self.retry_delay * (2 ** attempt)
BackoffWait_linear(attempt) == retry_delay * (attempt + 1)
BackoffWait(attempt) == retry_delay * (2 ^ attempt)

\* a failed attempt that is retried after the backoff sleep
BackoffSleep(run) ==
    [run EXCEPT !.pc = "sleeping", !.sleeps = Count(run, @),
                !.sleep_log = Slept(run, "backoff", BackoffWait(run.attempt))]

\* except RetryAfter: asyncio.sleep(e.retry_after), whatever the attempt
RateLimitSleep(run, retry_after) ==
    [run EXCEPT !.pc = "sleeping",
                !.sleep_log = Slept(run, "rate_limit", retry_after)]

\* except (BadRequest, Forbidden): handle_operation_failure(..., HIGH)
PermanentErrorSeverity_medium == "medium"
PermanentErrorSeverity == "high"

\* send_message answered with outcome o: the exit of resilient_operation and
\* the matching except clause, up to the next suspension
AfterAttempt(run, rs, o, R, t) ==
    IF o = "ok"
    THEN [run |-> SendReturn([run EXCEPT !.outcome = o], TRUE,
                             run.attempt + 1, FALSE, FALSE),
          rs |-> OperationSucceeded(rs, "telegram_api")]
    ELSE
    LET r1 == OperationFailed(rs, "telegram_api", t)
        run1 == [run EXCEPT !.nfail = Count(run, @)]
        ret1 == [run1 EXCEPT !.outcome = o]
        r2 == [r1 EXCEPT !.ne = @ + 1]
    IN CASE o = "bad_request" ->
              [run |-> SendReturn(ret1, FALSE, run.attempt + 1, TRUE, FALSE),
               rs |-> HandleOperationFailure(
                          [r1 EXCEPT !.cb = record_circuit_breaker_failure(
                                                @, "telegram_api", t)],
                          PermanentErrorSeverity, t)]
         [] o = "unexpected" ->
              [run |-> SendReturn(ret1, FALSE, run.attempt + 1, FALSE, FALSE),
               rs |-> HandleOperationFailure(r1, "critical", t)]
         [] o = "retry_after" ->
              [run |-> RateLimitSleep(run1, run.wait), rs |-> r1]
         [] o = "telegram_error" ->
              IF run.attempt < R
              THEN [run |-> BackoffSleep(run1),
                    rs |-> HandleOperationFailure(r1, "medium", t)]
              ELSE BeginAttempt(ret1, r1, run.attempt + 1, R, t)
         [] o = "timed_out" ->
              IF run.attempt < R
              THEN IF ReconnectionStarts(r2, t)
                   THEN [run |-> [run1 EXCEPT
                                     !.pc = "reconnect",
                                     !.sleep_log = Slept(
                                         run1, "reconnect",
                                         network_reconnection_sleep)],
                         rs |-> [r2 EXCEPT !.hist["network_reconnection"] =
                                               Append(@, t)]]
                   ELSE [run |-> BackoffSleep(run1), rs |-> r2]
              ELSE BeginAttempt(ret1, r1, run.attempt + 1, R, t)

\* the answers the channel may give to the request in flight
AllowedOutcomes(run) ==
    IF run.f = Free THEN Outcomes
    ELSE IF run.nfail < run.f THEN {run.kind}
    ELSE {run.last}

\* ------------------------------------------------ scheduler: the job store
daily_job_id == <<"daily_lesson_post", NoLesson>>   \* self._daily_job_id
QuizJobId(l) == <<"quiz_for_lesson", l>>            \* f"quiz_for_lesson_{id}"

NoTimezone == "none"                     \* None for a timezone
KnownTimezones == {"UTC", "Africa/Addis_Ababa"}     \* pytz resolves these

\* the defaults of Config
DefaultConfig ==
    [posting_time |-> <<9, 0>>, timezone |-> "UTC", enable_quizzes |-> TRUE]

\* the job _schedule_daily_posting builds from the configuration
CronJob(cfg) ==
    [id |-> daily_job_id, trigger |-> "cron", hour |-> cfg.posting_time[1],
     minute |-> cfg.posting_time[2], timezone |-> cfg.timezone,
     run_date |-> Null, lesson |-> NoLesson]

\* the one-shot job registered after lesson l was posted at time t
QuizJob(l, cfg, t) ==
    [id |-> QuizJobId(l), trigger |-> "date", hour |-> Null, minute |-> Null,
     timezone |-> cfg.timezone, run_date |-> t + quiz_delay_minutes * 60,
     lesson |-> l]

\* scheduler.get_job(id) finds a job
HasJob(js, id) == \E i \in 1..Len(js) : js[i].id = id

\* scheduler.remove_job(id)
remove_job(js, id) == SelectSeq(js, LAMBDA j : j.id # id)

\* scheduler.add_job(..., id=job.id, replace_existing=...): a job with the
\* same id is replaced in place, or the call fails with ConflictingIdError
add_job_append(js, job, replace_existing) == Append(js, job)
add_job(js, job, replace_existing) ==
    IF HasJob(js, job.id)
    THEN IF replace_existing
         THEN [i \in 1..Len(js) |-> IF js[i].id = job.id THEN job ELSE js[i]]
         ELSE js
    ELSE Append(js, job)

\* the `if self.enable_quizzes` block of _execute_daily_post
ScheduleQuiz_append(js, l, cfg, t) ==
    IF cfg.enable_quizzes THEN Append(js, QuizJob(l, cfg, t)) ELSE js
ScheduleQuiz(js, l, cfg, t) ==
    IF cfg.enable_quizzes THEN add_job(js, QuizJob(l, cfg, t), TRUE) ELSE js

\* ------------------------------------------ scheduler: _execute_daily_post
\* mark_lesson_posted sits in the branch `if send_result['success']`
ShouldMark_any(send_success) == TRUE
ShouldMark(send_success) == send_success

\* the add_job of the quiz sits in the same branch
ShouldScheduleQuiz_any(send_success) == TRUE
ShouldScheduleQuiz(send_success) == send_success

\* the PostingHistory object _record_posting_history builds
PostingHistory(lesson_id, success, retry_count) ==
    [lesson_id |-> lesson_id, success |-> success, retry_count |-> retry_count]

\* _record_posting_history: the object is built and a line is logged;
\* nothing is handed to PostingHistoryRepository, the table keeps its rows
RecordPostingHistory(table, history) == table

\* _execute_daily_post from the return of send_lesson to its own return
AfterSend(s, res) ==
    LET run == [res.run EXCEPT !.pc = "idle"]
        ok == run.result = "success"
        rsF == IF ok THEN res.rs
               ELSE HandleOperationFailure(
                        res.rs,
                        IF run.permanent_error THEN "high" ELSE "medium",
                        now)
        history == PostingHistory(run.lesson, ok, run.attempts)
    IN /\ runs' = [runs EXCEPT ![s] = IdleRun]
       /\ lastReturn' = [run EXCEPT !.reports = rsF.rep,
                                    !.history = <<history>>]
       /\ posting_history' = RecordPostingHistory(posting_history, history)
       /\ SetRS(OperationSucceeded(rsF, "scheduler"))
       /\ lessons' = IF ShouldMark(ok)
                     THEN mark_lesson_used(lessons, run.lesson, now)
                     ELSE lessons
       /\ delivered' = IF ok THEN [delivered EXCEPT ![run.lesson] = @ + 1]
                       ELSE delivered
       /\ jobs' = IF ShouldScheduleQuiz(ok)
                  THEN ScheduleQuiz(jobs, run.lesson, config, now)
                  ELSE jobs

\* the run goes on to its next suspension, or returns
Continue(s, res) ==
    IF res.run.pc = "returned" THEN AfterSend(s, res)
    ELSE /\ runs' = [runs EXCEPT ![s] = res.run]
         /\ lastReturn' = IdleRun
         /\ SetRS(res.rs)
         /\ UNCHANGED <<lessons, delivered, posting_history, jobs>>

\* the run ends without a send: no lesson, or the 'scheduler' breaker is open
EndWithoutSend(s, run, rs) ==
    /\ runs' = [runs EXCEPT ![s] = IdleRun]
    /\ LET history == PostingHistory(Null, FALSE, 1)
       IN /\ lastReturn' = [run EXCEPT !.result = "failure",
                                        !.reports = rs.rep,
                                        !.history = <<history>>]
          /\ posting_history' = RecordPostingHistory(posting_history, history)
    /\ SetRS(rs)
    /\ UNCHANGED <<lessons, delivered, jobs>>

\* a breaker that is closed with no failure counted
CleanBreaker(b) == b.state \in {"absent", "closed"} /\ b.failure_count = 0

\* the channel of a run: free, or scripted to answer the first f requests
\* with `kind` (a RetryAfter carries `wait`) and the next one with `last`
FreeChannel == [f |-> Free, kind |-> "none", wait |-> 0, last |-> "ok"]

\* _execute_daily_post starts in slot s and runs to its first suspension
StartRun(s, channel) ==
    /\ runs[s].pc = "idle"
    /\ nruns < MaxRuns
    /\ nruns' = nruns + 1
    /\ UNCHANGED <<now, picks, lastPick, recovery, retry_attempts,
                   jobVars, otherVars>>
    /\ LET clean == /\ channel.kind \in TransientKinds
                    /\ channel.last = "ok"
                    /\ CleanBreaker(circuit_breakers["telegram_api"])
           run0 == [IdleRun EXCEPT
                       !.f = channel.f, !.kind = channel.kind,
                       !.wait = channel.wait,
                       !.last = channel.last, !.clean = clean,
                       !.failures_before =
                           IF channel.f = Free THEN 0
                           ELSE circuit_breakers["telegram_api"].failure_count,
                       !.consecutive_before =
                           IF channel.f = Free THEN 0
                           ELSE consecutive_failures]
       IN IF BreakerBlocks(circuit_breakers, "scheduler")
          THEN /\ EndWithoutSend(s, run0,
                                 HandleOperationFailure(RS, "critical", now))
               /\ UNCHANGED last_category
          ELSE LET rs1 == [RS EXCEPT !.cb = InitBreaker(@, "scheduler")]
               IN \E r \in GetNextLesson(lessons, "unused_first", NoCategory,
                                         last_category) :
                    /\ last_category' = r[2]
                    /\ IF r[1] = NoLesson
                       THEN EndWithoutSend(
                                s, run0,
                                OperationSucceeded(
                                    HandleOperationFailure(rs1, "medium", now),
                                    "scheduler"))
                       ELSE Continue(s,
                                     SendWithRetry(
                                         [run0 EXCEPT !.lesson = r[1]],
                                         rs1, retry_attempts, now))

\* the cron trigger fires the daily job; APScheduler's max_instances = 1
\* skips the fire while the job's previous run is in flight
FireDaily ==
    /\ running
    /\ HasJob(jobs, daily_job_id)
    /\ StartRun("cron", FreeChannel)
    /\ UNCHANGED missed_tasks

\* trigger_immediate_post, from the missed-job listener or an admin command,
\* calls _execute_daily_post itself
TriggerImmediatePost ==
    /\ StartRun("manual", FreeChannel)
    /\ UNCHANGED missed_tasks

\* send_message answers
SendCompletes(s, o) ==
    /\ runs[s].pc = "sending"
    /\ o \in AllowedOutcomes(runs[s])
    /\ Continue(s, AfterAttempt(runs[s], RS, o, retry_attempts, now))
    /\ UNCHANGED <<last_category, now, picks, lastPick, recovery,
                   retry_attempts, nruns, missed_tasks, jobVars, otherVars>>

SendAnswers == \E s \in Slots, o \in Outcomes : SendCompletes(s, o)

\* network_reconnection ends its sleep(5); the backoff sleep follows
ReconnectDone(s) ==
    /\ runs[s].pc = "reconnect"
    /\ runs' = [runs EXCEPT ![s] = BackoffSleep(runs[s])]
    /\ network_error_count' = IF network_error_count > 0
                              THEN network_error_count - 1 ELSE 0
    /\ lastReturn' = IdleRun
    /\ UNCHANGED <<lessons, last_category, now, picks, lastPick,
                   circuit_breakers, consecutive_failures, action_history,
                   recovery, retry_attempts, nruns, delivered,
                   posting_history, schedVars, otherVars>>

Reconnected == \E s \in Slots : ReconnectDone(s)

\* asyncio.sleep returns: the loop goes to its next iteration
Wake(s) ==
    /\ runs[s].pc = "sleeping"
    /\ Continue(s, BeginAttempt(runs[s], RS, runs[s].attempt + 1,
                             retry_attempts, now))
    /\ UNCHANGED <<last_category, now, picks, lastPick, recovery,
                   retry_attempts, nruns, missed_tasks, jobVars, otherVars>>

SleepEnds == \E s \in Slots : Wake(s)

\* the monitoring loop's _update_circuit_breakers
Sweep ==
    /\ circuit_breakers' = UpdateCircuitBreakers(circuit_breakers, now)
    /\ lastReturn' = IdleRun
    /\ UNCHANGED <<lessons, last_category, now, picks, lastPick,
                   consecutive_failures, network_error_count, action_history,
                   recovery, retry_attempts, runs, nruns, delivered,
                   posting_history, schedVars, otherVars>>

\* _execute_recovery_action("telegram_api_recovery") up to the action's sleep
DispatchTelegramApiRecovery ==
    /\ recovery = "idle"
    /\ Len(action_history["telegram_api_recovery"]) < MaxRecoveries
    /\ RecoveryAllowed(action_history, "telegram_api_recovery", now)
    /\ action_history' = [action_history EXCEPT
                              !["telegram_api_recovery"] = Append(@, now)]
    /\ recovery' = "sleeping"
    /\ UNCHANGED <<lessons, last_category, now, picks, lastPick,
                   circuit_breakers, consecutive_failures,
                   network_error_count, runVars, schedVars, otherVars>>

\* telegram_api_recovery after its sleep(30)
TelegramApiRecoveryDone ==
    /\ recovery = "sleeping"
    /\ recovery' = "idle"
    /\ circuit_breakers' = TelegramApiRecoveryEffect(circuit_breakers)
    /\ UNCHANGED <<lessons, last_category, now, picks, lastPick,
                   consecutive_failures, network_error_count, action_history,
                   runVars, schedVars, otherVars>>

\* time passes
Tick ==
    /\ now + TickSeconds <= MaxClock
    /\ now' = now + TickSeconds
    /\ lastReturn' = IdleRun
    /\ UNCHANGED <<lessons, last_category, picks, lastPick, resVars,
                   retry_attempts, runs, nruns, delivered, posting_history,
                   schedVars, otherVars>>

InitResilience ==
    /\ circuit_breakers = [n \in BreakerNames |-> AbsentBreaker]
    /\ consecutive_failures = 0
    /\ network_error_count = 0
    /\ action_history = [a \in ActionNames |-> <<>>]
    /\ recovery = "idle"

NoCall == [new_time |-> <<>>, new_timezone |-> NoTimezone, result |-> "none"]
NoDispatch == [name |-> "none", recent |-> 0, result |-> "none",
               started |-> FALSE]
NoCheck == [needed |-> "none", after_reset |-> FALSE]
NoSample == [cpu |-> 0, memory |-> 0, disk |-> 0, mode |-> "none",
             trigger |-> "none"]

\* the scheduler after start() with the default configuration
InitStarted ==
    /\ config = DefaultConfig
    /\ running = TRUE
    /\ jobs = <<CronJob(DefaultConfig)>>
    /\ missed_tasks = 0
    /\ missed_events = [daily |-> 0, quiz |-> 0]
    /\ lastCall = NoCall

\* True and False as the calls' results are recorded
BoolName(b) == IF b THEN "true" ELSE "false"

NoInit == [token_ok |-> FALSE, permissions_ok |-> FALSE, result |-> "none"]

\* the Config of an environment that sets only BOT_TOKEN and CHANNEL_ID
DefaultCandidate ==
    [posting_time |-> <<9, 0>>, timezone |-> "UTC",
     retry_attempts |-> default_retry_attempts, retry_delay |-> retry_delay,
     quiz_delay_minutes |-> quiz_delay_minutes,
     max_cpu_percent |-> 85, max_memory_percent |-> 85,
     max_disk_percent |-> 90,
     circuit_breaker_threshold |-> failure_threshold,
     circuit_breaker_timeout |-> breaker_timeout]

NoHandled == [severity |-> "none", action |-> "none", ran |-> FALSE,
              result |-> "none"]

\* the process is up: its configuration passed, create_bot_controller
\* returned an initialized controller, the monitoring loops run, and no
\* signal has arrived
InitProcess ==
    /\ shutdown = "running"
    /\ validated = TRUE
    /\ lastInit = NoInit
    /\ candidate = DefaultCandidate
    /\ lastValidate = "none"
    /\ started_by = "initialize_system_services"
    /\ lastHandled = NoHandled

\* the resilience service in normal mode, no recovery action under dispatch
InitOther ==
    /\ lastDispatch = NoDispatch
    /\ executing = 0
    /\ current_mode = "normal"
    /\ lastSample = NoSample
    /\ rotation = NoCategory
    /\ lastCheck = NoCheck
    /\ InitProcess

InitRuns ==
    /\ runs = [s \in Slots |-> IdleRun]
    /\ nruns = 0
    /\ delivered = [l \in LessonIds |-> 0]
    /\ posting_history = <<>>
    /\ lastReturn = IdleRun

Init ==
    /\ InitLessons
    /\ last_category = NoCategory
    /\ now = 0
    /\ picks = <<>>
    /\ lastPick = NoPick
    /\ InitResilience
    /\ InitRuns
    /\ retry_attempts = default_retry_attempts
    /\ InitStarted
    /\ InitOther

Next ==
    \/ FireDaily
    \/ TriggerImmediatePost
    \/ SendAnswers
    \/ Reconnected
    \/ SleepEnds
    \/ Sweep
    \/ Tick

Spec == Init /\ [][Next]_vars

\* the same pipeline with ENABLE_QUIZZES set either way
InitQuiz ==
    /\ InitLessons
    /\ last_category = NoCategory
    /\ now = 0
    /\ picks = <<>>
    /\ lastPick = NoPick
    /\ InitResilience
    /\ InitRuns
    /\ retry_attempts = default_retry_attempts
    /\ \E q \in BOOLEAN : config = [DefaultConfig EXCEPT !.enable_quizzes = q]
    /\ running = TRUE
    /\ jobs = <<CronJob(DefaultConfig)>>
    /\ missed_tasks = 0
    /\ missed_events = [daily |-> 0, quiz |-> 0]
    /\ lastCall = NoCall
    /\ InitOther

\* the runs and their sends, on a clock that stands still
NextQuiz ==
    \/ FireDaily
    \/ TriggerImmediatePost
    \/ SendAnswers
    \/ Reconnected
    \/ SleepEnds

SpecQuiz == InitQuiz /\ [][NextQuiz]_vars

\* ---------------------------------------- the breakers under their clients
\* The breaker methods of ResilienceService as any client may call them,
\* with the sweep and the telegram_api_recovery action.
GetState(n) ==
    /\ circuit_breakers' = InitBreaker(circuit_breakers, n)
    /\ UNCHANGED <<lessons, last_category, now, picks, lastPick,
                   consecutive_failures, network_error_count, action_history,
                   recovery, runVars, schedVars, otherVars>>

RecordSuccess(n) ==
    /\ circuit_breakers' = record_circuit_breaker_success(circuit_breakers, n)
    /\ UNCHANGED <<lessons, last_category, now, picks, lastPick,
                   consecutive_failures, network_error_count, action_history,
                   recovery, runVars, schedVars, otherVars>>

RecordFailure(n) ==
    /\ circuit_breakers[n].failure_count < MaxFailures
    /\ circuit_breakers' =
           record_circuit_breaker_failure(circuit_breakers, n, now)
    /\ UNCHANGED <<lessons, last_category, now, picks, lastPick,
                   consecutive_failures, network_error_count, action_history,
                   recovery, runVars, schedVars, otherVars>>

\* time passes for the breakers
SweepTick ==
    /\ now + SweepSeconds <= MaxSweepClock
    /\ now' = now + SweepSeconds
    /\ UNCHANGED <<lessons, last_category, picks, lastPick, resVars, runVars,
                   schedVars, otherVars>>

BrGetState == \E n \in BreakerNames : GetState(n)
BrRecordSuccess == \E n \in BreakerNames : RecordSuccess(n)
BrRecordFailure == \E n \in BreakerNames : RecordFailure(n)

NextBreaker ==
    \/ BrGetState
    \/ BrRecordSuccess
    \/ BrRecordFailure
    \/ Sweep
    \/ DispatchTelegramApiRecovery
    \/ TelegramApiRecoveryDone
    \/ SweepTick

SpecBreaker == Init /\ [][NextBreaker]_vars

\* ------------------------------------------- send_lesson, one at a time
\* One execution at a time, its channel failing f times with a transient
\* error before it answers, for every retry_attempts up to MaxRetry.
InitSend ==
    /\ InitLessons
    /\ last_category = NoCategory
    /\ now = 0
    /\ picks = <<>>
    /\ lastPick = NoPick
    /\ InitResilience
    /\ InitRuns
    /\ retry_attempts \in 0..MaxRetry
    /\ InitStarted
    /\ InitOther

StartScripted ==
    /\ \E f \in 0..(MaxRetry + 1), kind \in TransientKinds :
          StartRun("cron", [FreeChannel EXCEPT !.f = f, !.kind = kind])
    /\ UNCHANGED missed_tasks

\* the channel answers the first f requests with RetryAfter(wait)
StartRateLimited ==
    /\ \E f \in 0..(MaxRetry + 1), wait \in RetryAfterValues :
          StartRun("cron", [FreeChannel EXCEPT !.f = f,
                                              !.kind = "retry_after",
                                              !.wait = wait])
    /\ UNCHANGED missed_tasks

\* the channel rejects the request that follows f transient failures
StartRejected ==
    /\ \E f \in 0..MaxRetry, kind \in TransientKinds :
          StartRun("cron", [FreeChannel EXCEPT !.f = f, !.kind = kind,
                                              !.last = "bad_request"])
    /\ UNCHANGED missed_tasks

NextSend ==
    \/ StartScripted
    \/ StartRateLimited
    \/ StartRejected
    \/ SendAnswers
    \/ Reconnected
    \/ SleepEnds

SpecSend == InitSend /\ [][NextSend]_vars

\* --------------------------------------- recovery actions under dispatch
\* The clients of the resilience service dispatch one recovery action, at
\* any time and while earlier executions of it are still at their sleep.
DispatchNames == ActionNames \cup {"service_restart"}
SleepingActions == {"network_reconnection", "telegram_api_recovery"}
RecoveryTickSeconds == RecoveryActions["cleanup_resources"].cooldown_seconds
MaxRecoveryClock ==
    RecoveryActions["emergency_cleanup"].cooldown_seconds + RecoveryTickSeconds

\* _execute_recovery_action(name, ...) up to the action's first suspension
DispatchRecovery ==
    LET name == lastDispatch.name
        recent == IF name \in ActionNames
                  THEN Len(RecentAttempts(action_history, name, now))
                  ELSE 0
        call == [name |-> name, recent |-> recent, result |-> "false",
                 started |-> FALSE]
    IN /\ name \in DispatchNames
       /\ IF ~RecoveryAllowed(action_history, name, now)
          THEN /\ lastDispatch' = call
               /\ UNCHANGED <<resVars, executing>>
          ELSE /\ Len(action_history[name]) < MaxStarts
               /\ UNCHANGED recovery
               /\ IF name \in SleepingActions
                  THEN /\ action_history' =
                            [action_history EXCEPT ![name] = Append(@, now)]
                       /\ executing' = executing + 1
                       /\ lastDispatch' = [call EXCEPT !.result = "pending",
                                                       !.started = TRUE]
                       /\ UNCHANGED <<circuit_breakers, consecutive_failures,
                                      network_error_count>>
                  ELSE /\ SetRS(ExecuteRecoveryAction(RS, name, now))
                       /\ lastDispatch' = [call EXCEPT !.result = "true",
                                                       !.started = TRUE]
                       /\ UNCHANGED executing
       /\ UNCHANGED <<lessons, last_category, now, picks, lastPick, runVars,
                      schedVars, current_mode, lastSample, callVars,
                      procVars>>

\* an execution of network_reconnection or telegram_api_recovery wakes up
RecoveryCompletes ==
    /\ executing > 0
    /\ executing' = executing - 1
    /\ IF lastDispatch.name = "network_reconnection"
       THEN /\ network_error_count' = IF network_error_count > 0
                                      THEN network_error_count - 1 ELSE 0
            /\ UNCHANGED circuit_breakers
       ELSE /\ circuit_breakers' = TelegramApiRecoveryEffect(circuit_breakers)
            /\ UNCHANGED network_error_count
    /\ UNCHANGED <<lessons, last_category, now, picks, lastPick,
                   consecutive_failures, action_history, recovery, runVars,
                   schedVars, lastDispatch, current_mode, lastSample,
                   callVars, procVars>>

\* time passes
RecoveryTick ==
    /\ now + RecoveryTickSeconds <= MaxRecoveryClock
    /\ now' = now + RecoveryTickSeconds
    /\ UNCHANGED <<lessons, last_category, picks, lastPick, resVars, runVars,
                   schedVars, otherVars>>

InitRecovery ==
    /\ InitLessons
    /\ last_category = NoCategory
    /\ now = 0
    /\ picks = <<>>
    /\ lastPick = NoPick
    /\ circuit_breakers = [n \in BreakerNames |-> AbsentBreaker]
    /\ consecutive_failures \in {0, consecutive_failure_threshold}
    /\ network_error_count \in {0, network_error_threshold}
    /\ action_history = [a \in ActionNames |-> <<>>]
    /\ recovery = "idle"
    /\ InitRuns
    /\ retry_attempts = default_retry_attempts
    /\ InitStarted
    /\ \E name \in DispatchNames :
          lastDispatch = [NoDispatch EXCEPT !.name = name]
    /\ executing = 0
    /\ current_mode = "normal"
    /\ lastSample = NoSample
    /\ rotation = NoCategory
    /\ lastCheck = NoCheck
    /\ InitProcess

NextRecovery == DispatchRecovery \/ RecoveryCompletes \/ RecoveryTick

SpecRecovery == InitRecovery /\ [][NextRecovery]_vars

\* ------------------------------------------------- the resource monitor
\* _determine_system_mode
determine_system_mode_all(cpu_percent, memory_percent, disk_percent) ==
    IF /\ cpu_percent > cpu_minimal_max
       /\ memory_percent > memory_minimal_max
       /\ disk_percent > disk_minimal_max
    THEN "emergency"
    ELSE IF /\ cpu_percent > cpu_degraded_max
            /\ memory_percent > memory_degraded_max
            /\ disk_percent > disk_degraded_max
         THEN "minimal"
         ELSE IF /\ cpu_percent > cpu_normal_max
                 /\ memory_percent > memory_normal_max
                 /\ disk_percent > disk_normal_max
              THEN "degraded"
              ELSE "normal"
determine_system_mode(cpu_percent, memory_percent, disk_percent) ==
    IF \/ cpu_percent > cpu_minimal_max
       \/ memory_percent > memory_minimal_max
       \/ disk_percent > disk_minimal_max
    THEN "emergency"
    ELSE IF \/ cpu_percent > cpu_degraded_max
            \/ memory_percent > memory_degraded_max
            \/ disk_percent > disk_degraded_max
         THEN "minimal"
         ELSE IF \/ cpu_percent > cpu_normal_max
                 \/ memory_percent > memory_normal_max
                 \/ disk_percent > disk_normal_max
              THEN "degraded"
              ELSE "normal"

\* _apply_mode_measures
ApplyModeMeasures_keep(rs, mode, t) ==
    CASE mode = "degraded" -> ExecuteRecoveryAction(rs, "cleanup_resources", t)
      [] mode = "minimal" -> ExecuteRecoveryAction(rs, "aggressive_cleanup", t)
      [] mode = "emergency" -> ExecuteRecoveryAction(rs, "emergency_cleanup", t)
      [] mode = "normal" -> rs
ApplyModeMeasures(rs, mode, t) ==
    CASE mode = "degraded" -> ExecuteRecoveryAction(rs, "cleanup_resources", t)
      [] mode = "minimal" -> ExecuteRecoveryAction(rs, "aggressive_cleanup", t)
      [] mode = "emergency" -> ExecuteRecoveryAction(rs, "emergency_cleanup", t)
      [] mode = "normal" -> [rs EXCEPT !.cf = 0, !.ne = 0]

\* the readings psutil can give: each ceiling and the value just above it
PercentInputs(normal_max, degraded_max, minimal_max) ==
    {normal_max, normal_max + 1, degraded_max, degraded_max + 1,
     minimal_max, minimal_max + 1}

\* _check_resource_constraints, with _change_system_mode when the mode
\* moves, for readings from the given sets
ResourceCheck(cpu_readings, memory_readings, disk_readings) ==
    \E cpu_percent \in cpu_readings, memory_percent \in memory_readings,
       disk_percent \in disk_readings :
        LET new_mode == determine_system_mode(cpu_percent, memory_percent,
                                              disk_percent)
        IN /\ lastSample' = [cpu |-> cpu_percent, memory |-> memory_percent,
                             disk |-> disk_percent, mode |-> new_mode,
                             trigger |-> "resource_constraint"]
           /\ IF new_mode # current_mode
              THEN /\ current_mode' = new_mode
                   /\ SetRS(ApplyModeMeasures(RS, new_mode, now))
              ELSE UNCHANGED <<current_mode, circuit_breakers,
                               consecutive_failures, network_error_count,
                               action_history>>
           /\ UNCHANGED <<lessons, last_category, now, picks, lastPick,
                          recovery, runVars, schedVars, lastDispatch,
                          executing, callVars, procVars>>

CheckResourceConstraints ==
    ResourceCheck(PercentInputs(cpu_normal_max, cpu_degraded_max,
                                cpu_minimal_max),
                  PercentInputs(memory_normal_max, memory_degraded_max,
                                memory_minimal_max),
                  PercentInputs(disk_normal_max, disk_degraded_max,
                                disk_minimal_max))

InitMode ==
    /\ InitLessons
    /\ last_category = NoCategory
    /\ now = 0
    /\ picks = <<>>
    /\ lastPick = NoPick
    /\ circuit_breakers = [n \in BreakerNames |-> AbsentBreaker]
    /\ consecutive_failures \in 0..1
    /\ network_error_count = 0
    /\ action_history = [a \in ActionNames |-> <<>>]
    /\ recovery = "idle"
    /\ InitRuns
    /\ retry_attempts = default_retry_attempts
    /\ InitStarted
    /\ InitOther

NextMode == CheckResourceConstraints

SpecMode == InitMode /\ [][NextMode]_vars

\* ------------------------- the resilience service: clients and monitors
\* The clients report failures and network errors and record breaker
\* results while the resource loop and the recovery loop sample the machine.
MaxConsecutive == consecutive_failure_threshold   \* failures the clients report in a row
MaxNetworkErrors == network_error_threshold - 1   \* network errors they report: short of a reconnection

\* current_mode after handle_operation_failure: the method has no
\* assignment to it
ModeAfterFailure_degrades(mode, failures) ==
    IF mode = "normal" /\ failures >= consecutive_failure_threshold
    THEN "degraded"
    ELSE mode
ModeAfterFailure(mode, failures) == mode

\* handle_operation_failure(operation, error, severity)
HandleFailure ==
    \E severity \in ErrorSeverity :
        LET failures == consecutive_failures + 1
            action == IF failures >= consecutive_failure_threshold
                      THEN ActionForSeverity(severity)
                      ELSE "none"
            ran == /\ action # "none"
                   /\ RecoveryAllowed(action_history, action, now)
        IN /\ consecutive_failures < MaxConsecutive
           /\ SetRS(HandleOperationFailure(RS, severity, now))
           /\ current_mode' = ModeAfterFailure(current_mode, failures)
           /\ lastHandled' = [severity |-> severity,
                              action |-> action,
                              ran |-> ran,
                              result |-> BoolName(action = "none" \/ ran)]
           /\ UNCHANGED <<lessons, last_category, now, picks, lastPick,
                          recovery, runVars, schedVars, lastDispatch,
                          executing, lastSample, callVars, shutdown,
                          validated, lastInit, candidate, lastValidate,
                          started_by>>

\* handle_network_error up to the sleep of network_reconnection
HandleNetworkError ==
    LET rs == [RS EXCEPT !.ne = @ + 1]
    IN /\ network_error_count < MaxNetworkErrors
       /\ IF ReconnectionStarts(rs, now)
          THEN /\ SetRS([rs EXCEPT !.hist["network_reconnection"] =
                                       Append(@, now)])
               /\ executing' = executing + 1
          ELSE /\ SetRS(rs)
               /\ UNCHANGED executing
       /\ UNCHANGED <<lessons, last_category, now, picks, lastPick, recovery,
                      runVars, schedVars, lastDispatch, current_mode,
                      lastSample, callVars, procVars>>

\* the value strings of SystemMode, letter by letter
ModeValue ==
    [normal |-> <<"n", "o", "r", "m", "a", "l">>,
     degraded |-> <<"d", "e", "g", "r", "a", "d", "e", "d">>,
     minimal |-> <<"m", "i", "n", "i", "m", "a", "l">>,
     emergency |-> <<"e", "m", "e", "r", "g", "e", "n", "c", "y">>]

Alphabet == <<"a", "b", "c", "d", "e", "f", "g", "h", "i", "j", "k", "l", "m",
              "n", "o", "p", "q", "r", "s", "t", "u", "v", "w", "x", "y", "z">>

\* ord() of a lower-case letter, counted from "a"
Ord(c) == CHOOSE i \in 1..Len(Alphabet) : Alphabet[i] = c

RECURSIVE StrLess(_, _)
\* Python's < on two str values
StrLess(a, b) ==
    IF b = <<>> THEN FALSE
    ELSE IF a = <<>> THEN TRUE
    ELSE IF Head(a) # Head(b) THEN Ord(Head(a)) < Ord(Head(b))
    ELSE StrLess(Tail(a), Tail(b))

\* target_mode.value < self.current_mode.value
BetterMode(target_mode, mode) == StrLess(ModeValue[target_mode], ModeValue[mode])

\* _check_recovery_opportunities when the mode is not NORMAL, for readings
\* from the given sets
RecoveryCheck(cpu_readings, memory_readings, disk_readings) ==
    /\ current_mode # "normal"
    /\ \E cpu_percent \in cpu_readings, memory_percent \in memory_readings,
          disk_percent \in disk_readings :
        LET target_mode == determine_system_mode(cpu_percent, memory_percent,
                                                 disk_percent)
        IN /\ lastSample' = [cpu |-> cpu_percent, memory |-> memory_percent,
                             disk |-> disk_percent, mode |-> target_mode,
                             trigger |-> "recovery_opportunity"]
           /\ IF BetterMode(target_mode, current_mode)
              THEN /\ current_mode' = target_mode
                   /\ SetRS(ApplyModeMeasures(RS, target_mode, now))
              ELSE UNCHANGED <<current_mode, circuit_breakers,
                               consecutive_failures, network_error_count,
                               action_history>>
    /\ UNCHANGED <<lessons, last_category, now, picks, lastPick, recovery,
                   runVars, schedVars, lastDispatch, executing, callVars,
                   procVars>>

\* the readings of this specification: a CPU reading for each mode, memory
\* and disk at their normal ceilings
CpuReadings == {cpu_normal_max, cpu_degraded_max, cpu_minimal_max,
                cpu_minimal_max + 1}
MemoryReadings == {memory_normal_max}
DiskReadings == {disk_normal_max}

ResourceLoop == ResourceCheck(CpuReadings, MemoryReadings, DiskReadings)
RecoveryLoop == RecoveryCheck(CpuReadings, MemoryReadings, DiskReadings)
ClientRecordsFailure == RecordFailure("telegram_api")
ClientRecordsSuccess == RecordSuccess("telegram_api")

NextResilience ==
    \/ HandleFailure
    \/ HandleNetworkError
    \/ ResourceLoop
    \/ RecoveryLoop
    \/ ClientRecordsFailure
    \/ ClientRecordsSuccess
    \/ Sweep

\* the service as constructed, over an empty lessons table
InitService ==
    /\ lessons = <<>>
    /\ last_category = NoCategory
    /\ now = 0
    /\ picks = <<>>
    /\ lastPick = NoPick
    /\ InitResilience
    /\ InitRuns
    /\ retry_attempts = default_retry_attempts
    /\ InitStarted
    /\ InitOther

SpecResilience == InitService /\ [][NextResilience]_vars

\* ------------------------------------------------ the scheduler's jobs
\* start, stop and reschedule_daily_posting called in any order, the daily
\* job and the quiz jobs firing or being missed, on a channel that accepts
\* every request at once.
TimeInputs == {<<21, 30>>, <<24, 0>>, <<9, 60>>, <<9>>}
TimezoneInputs == {"Africa/Addis_Ababa", NoTimezone, "Mars/Phobos"}
AcceptingChannel == [FreeChannel EXCEPT !.f = 0]

\* the checks of _validate_config and reschedule_daily_posting on "HH:MM",
\* given as the integers between the colons
ValidTime_parts(parts) == Len(parts) = 2
ValidTime(parts) ==
    /\ Len(parts) = 2
    /\ parts[1] \in 0..23
    /\ parts[2] \in 0..59

\* start()
SchedStart ==
    /\ IF running \/ ~ValidTime(config.posting_time)
          \/ config.timezone \notin KnownTimezones
       THEN UNCHANGED <<jobs, running>>
       ELSE /\ jobs' = add_job(jobs, CronJob(config), TRUE)
            /\ running' = TRUE
    /\ lastCall' = NoCall
    /\ lastReturn' = IdleRun
    /\ UNCHANGED <<lessons, last_category, now, picks, lastPick, resVars,
                   retry_attempts, runs, nruns, delivered, posting_history,
                   missed_tasks, config, missed_events, otherVars>>

\* stop(): scheduler.shutdown empties the memory job store
SchedStop ==
    /\ IF running
       THEN /\ jobs' = <<>>
            /\ running' = FALSE
       ELSE UNCHANGED <<jobs, running>>
    /\ lastCall' = NoCall
    /\ lastReturn' = IdleRun
    /\ UNCHANGED <<lessons, last_category, now, picks, lastPick, resVars,
                   retry_attempts, runs, nruns, delivered, posting_history,
                   missed_tasks, config, missed_events, otherVars>>

\* reschedule_daily_posting(new_time, new_timezone)
RescheduleDailyPosting(new_time, new_timezone) ==
    LET timezone == IF new_timezone # NoTimezone THEN new_timezone
                    ELSE config.timezone
        call == [new_time |-> new_time, new_timezone |-> new_timezone,
                 result |-> "true"]
    IN /\ IF ValidTime(new_time) /\ timezone \in KnownTimezones
          THEN LET cfg == [config EXCEPT !.posting_time = new_time,
                                         !.timezone = timezone]
                   removed == IF HasJob(jobs, daily_job_id)
                              THEN remove_job(jobs, daily_job_id)
                              ELSE jobs
               IN /\ config' = cfg
                  /\ jobs' = add_job(removed, CronJob(cfg), TRUE)
                  /\ lastCall' = call
          ELSE /\ lastCall' = [NoCall EXCEPT !.result = "false"]
               /\ UNCHANGED <<config, jobs>>
       /\ lastReturn' = IdleRun
       /\ UNCHANGED <<lessons, last_category, now, picks, lastPick, resVars,
                      retry_attempts, runs, nruns, delivered, posting_history,
                      missed_tasks, running, missed_events, otherVars>>

Reschedule ==
    \E new_time \in TimeInputs, new_timezone \in TimezoneInputs :
        RescheduleDailyPosting(new_time, new_timezone)

\* the cron trigger fires the daily job
DailyJobFires ==
    /\ running
    /\ HasJob(jobs, daily_job_id)
    /\ nruns + missed_tasks < MaxRuns
    /\ StartRun("cron", AcceptingChannel)
    /\ UNCHANGED missed_tasks

\* _post_quiz_for_lesson on a channel that accepts the poll
QuizPosted(rs) ==
    IF BreakerBlocks(rs.cb, "telegram_api") THEN rs
    ELSE OperationSucceeded([rs EXCEPT !.cb = InitBreaker(@, "telegram_api")],
                            "telegram_api")

\* the date trigger of a quiz job fires: the job runs once and is gone
QuizJobFires ==
    \E l \in LessonIds :
        /\ running
        /\ HasJob(jobs, QuizJobId(l))
        /\ jobs' = remove_job(jobs, QuizJobId(l))
        /\ SetRS(QuizPosted(RS))
        /\ lastReturn' = IdleRun
        /\ UNCHANGED <<lessons, last_category, now, picks, lastPick, recovery,
                       retry_attempts, runs, nruns, delivered, posting_history,
                       missed_tasks, jobVars, otherVars>>

\* `if event.job_id == self._daily_job_id` of _job_missed_listener
IsDailyJob_any(id) == TRUE
IsDailyJob(id) == id = daily_job_id

\* a fire of job i was missed: APScheduler emits EVENT_JOB_MISSED, keeps a
\* cron job for its next fire and drops a date job; _job_missed_listener
\* creates a task for trigger_immediate_post
JobMissed(i) ==
    /\ running
    /\ missed_events.daily + missed_events.quiz < MaxMissed
    /\ jobs[i].trigger = "cron"
          => (missed_tasks = 0 /\ runs["manual"].pc = "idle"
              /\ nruns < MaxRuns)
    /\ jobs' = IF jobs[i].trigger = "date" THEN remove_job(jobs, jobs[i].id)
               ELSE jobs
    /\ missed_tasks' = IF IsDailyJob(jobs[i].id) THEN missed_tasks + 1
                       ELSE missed_tasks
    /\ missed_events' = IF jobs[i].id = daily_job_id
                        THEN [missed_events EXCEPT !.daily = @ + 1]
                        ELSE [missed_events EXCEPT !.quiz = @ + 1]
    /\ lastCall' = NoCall
    /\ lastReturn' = IdleRun
    /\ UNCHANGED <<lessons, last_category, now, picks, lastPick, resVars,
                   retry_attempts, runs, nruns, delivered, posting_history,
                   config, running, otherVars>>

MissedEvent == \E i \in 1..Len(jobs) : JobMissed(i)

\* the event loop starts a task the listener created
ImmediatePostStarts ==
    /\ missed_tasks > 0
    /\ missed_tasks' = missed_tasks - 1
    /\ StartRun("manual", AcceptingChannel)

\* the scheduler before start(), quizzes enabled or not
InitJobs ==
    /\ InitLessons
    /\ last_category = NoCategory
    /\ now = 0
    /\ picks = <<>>
    /\ lastPick = NoPick
    /\ InitResilience
    /\ InitRuns
    /\ retry_attempts = default_retry_attempts
    /\ \E q \in BOOLEAN : config = [DefaultConfig EXCEPT !.enable_quizzes = q]
    /\ running = FALSE
    /\ jobs = <<>>
    /\ missed_tasks = 0
    /\ missed_events = [daily |-> 0, quiz |-> 0]
    /\ lastCall = NoCall
    /\ InitOther

NextJobs ==
    \/ SchedStart
    \/ SchedStop
    \/ Reschedule
    \/ DailyJobFires
    \/ SendAnswers
    \/ QuizJobFires
    \/ MissedEvent
    \/ ImmediatePostStarts
    \/ Tick

SpecJobs == InitJobs /\ [][NextJobs]_vars

\* asyncio runs every task that was created
SpecJobsFair == SpecJobs /\ WF_vars(ImmediatePostStarts)

\* ------------------------------------------------- startup: the Config
\* Config.validate in the order of its checks; BOT_TOKEN and CHANNEL_ID are
\* well formed. posting_time is given as the integers between its colons.
ConfigValidate(cfg) ==
    IF Len(cfg.posting_time) # 2 THEN "error"
    ELSE IF ~(cfg.posting_time[1] \in 0..23 /\ cfg.posting_time[2] \in 0..59)
    THEN "error"
    ELSE IF cfg.retry_attempts < 0 \/ cfg.retry_delay < 0 THEN "error"
    ELSE IF ~(0 <= cfg.max_cpu_percent /\ cfg.max_cpu_percent <= 100)
    THEN "error"
    ELSE IF ~(0 <= cfg.max_memory_percent /\ cfg.max_memory_percent <= 100)
    THEN "error"
    ELSE IF ~(0 <= cfg.max_disk_percent /\ cfg.max_disk_percent <= 100)
    THEN "error"
    ELSE IF cfg.circuit_breaker_threshold < 1 THEN "error"
    ELSE IF cfg.circuit_breaker_timeout < 0 THEN "error"
    ELSE "ok"

\* the environments the process may be started in: every setting at a valid
\* value or just outside its range
PercentSettings == {-1, 100, 101}
CandidateInputs ==
    [posting_time : {<<9, 0>>, <<24, 0>>, <<9, 60>>, <<9>>},
     timezone : {"UTC", "Mars/Phobos"},
     retry_attempts : {-1, 0},
     retry_delay : {-1, 0},
     quiz_delay_minutes : {-1, quiz_delay_minutes},
     max_cpu_percent : PercentSettings,
     max_memory_percent : PercentSettings,
     max_disk_percent : PercentSettings,
     circuit_breaker_threshold : {0, 1},
     circuit_breaker_timeout : {-1, 0}]

\* config.validate() in main_async
ValidateConfig ==
    /\ lastValidate' = ConfigValidate(candidate)
    /\ UNCHANGED <<lessons, last_category, now, picks, lastPick, resVars,
                   runVars, schedVars, lastDispatch, executing, current_mode,
                   lastSample, callVars, shutdown, validated, lastInit,
                   candidate, started_by,
                   lastHandled>>

\* the process at config.validate(): nothing else has been created yet
InitConfig ==
    /\ InitLessons
    /\ last_category = NoCategory
    /\ now = 0
    /\ picks = <<>>
    /\ lastPick = NoPick
    /\ InitResilience
    /\ InitRuns
    /\ retry_attempts = default_retry_attempts
    /\ config = DefaultConfig
    /\ running = FALSE
    /\ jobs = <<>>
    /\ missed_tasks = 0
    /\ missed_events = [daily |-> 0, quiz |-> 0]
    /\ lastCall = NoCall
    /\ lastDispatch = NoDispatch
    /\ executing = 0
    /\ current_mode = "normal"
    /\ lastSample = NoSample
    /\ rotation = NoCategory
    /\ lastCheck = NoCheck
    /\ shutdown = "running"
    /\ validated = FALSE
    /\ lastInit = NoInit
    /\ candidate \in CandidateInputs
    /\ lastValidate = "none"
    /\ started_by = "main"
    /\ lastHandled = NoHandled

NextConfig == ValidateConfig

SpecConfig == InitConfig /\ [][NextConfig]_vars

\* ------------------------------------------ startup: the bot controller
\* initialize(): _validate_token, then _verify_permissions, then the flag
InitializeResult_token(token_ok, permissions_ok) == token_ok
InitializeResult(token_ok, permissions_ok) == token_ok /\ permissions_ok

\* initialize() with what get_me and the channel checks answer
InitializeBot ==
    \E token_ok \in BOOLEAN, permissions_ok \in BOOLEAN :
        LET ok == InitializeResult(token_ok, permissions_ok)
        IN /\ validated' = IF ok THEN TRUE ELSE validated
           /\ lastInit' = [token_ok |-> token_ok,
                           permissions_ok |-> permissions_ok,
                           result |-> BoolName(ok)]
           /\ UNCHANGED <<lessons, last_category, now, picks, lastPick,
                          resVars, runVars, schedVars, lastDispatch,
                          executing, current_mode, lastSample, callVars,
                          shutdown, candidate, lastValidate, started_by,
                   lastHandled>>

\* send_lesson(lesson): RuntimeError before anything else while the flag is
\* down, else on to _send_with_retry
SendLesson ==
    IF ~validated
    THEN /\ \E l \in DOMAIN lessons :
              lastReturn' = [IdleRun EXCEPT !.lesson = l, !.result = "raised"]
         /\ UNCHANGED <<lessons, last_category, now, picks, lastPick, resVars,
                        retry_attempts, runs, nruns, delivered,
                        posting_history, schedVars, otherVars>>
    ELSE StartScripted

\* the controller as constructed: _validated = False
InitBot ==
    /\ InitLessons
    /\ last_category = NoCategory
    /\ now = 0
    /\ picks = <<>>
    /\ lastPick = NoPick
    /\ InitResilience
    /\ InitRuns
    /\ retry_attempts = default_retry_attempts
    /\ InitStarted
    /\ lastDispatch = NoDispatch
    /\ executing = 0
    /\ current_mode = "normal"
    /\ lastSample = NoSample
    /\ rotation = NoCategory
    /\ lastCheck = NoCheck
    /\ shutdown = "running"
    /\ validated = FALSE
    /\ lastInit = NoInit
    /\ candidate = DefaultCandidate
    /\ lastValidate = "ok"
    /\ started_by = "main"
    /\ lastHandled = NoHandled

NextBot ==
    \/ InitializeBot
    \/ SendLesson
    \/ SendAnswers
    \/ Reconnected
    \/ SleepEnds

SpecBot == InitBot /\ [][NextBot]_vars

\* --------------------------------------------- the breakers' monitoring loop
\* ResilienceService.start() creates the task that runs
\* _circuit_breaker_monitoring_loop, and only setup_resilience() calls
\* start(): initialize_system_services() reaches it through
\* initialize_all_services(), main_async() does not.  The controller made by
\* main_async() takes the service from get_resilience_service(), which
\* constructs it without starting it.
EntryPoints == {"main", "initialize_system_services"}

\* self._monitoring_active with its tasks
MonitoringStarted(entry) == entry = "initialize_system_services"

\* one pass of _circuit_breaker_monitoring_loop
MonitorSweep ==
    /\ MonitoringStarted(started_by)
    /\ Sweep

\* the process after either entry point has brought its services up
InitEntry ==
    /\ InitLessons
    /\ last_category = NoCategory
    /\ now = 0
    /\ picks = <<>>
    /\ lastPick = NoPick
    /\ InitResilience
    /\ InitRuns
    /\ retry_attempts = default_retry_attempts
    /\ InitStarted
    /\ lastDispatch = NoDispatch
    /\ executing = 0
    /\ current_mode = "normal"
    /\ lastSample = NoSample
    /\ rotation = NoCategory
    /\ lastCheck = NoCheck
    /\ shutdown = "running"
    /\ validated = TRUE
    /\ lastInit = NoInit
    /\ candidate = DefaultCandidate
    /\ lastValidate = "ok"
    /\ started_by \in EntryPoints
    /\ lastHandled = NoHandled

NextEntry ==
    \/ BrGetState
    \/ BrRecordSuccess
    \/ BrRecordFailure
    \/ MonitorSweep
    \/ DispatchTelegramApiRecovery
    \/ TelegramApiRecoveryDone
    \/ SweepTick

\* the loop, once started, keeps running and the clock keeps advancing
SpecEntryFair ==
    /\ InitEntry
    /\ [][NextEntry]_vars
    /\ WF_vars(MonitorSweep)
    /\ WF_vars(SweepTick)

\* ------------------------------------------------------------- shutdown
\* main_async from the signal to its return, with the daily job's send in
\* flight: signal_handler sets shutdown_event, the finally block awaits
\* stop_polling, scheduler.stop and bot_controller.close, asyncio.run ends.
InFlight(run) == run.pc \in {"sending", "sleeping", "reconnect"}

\* asyncio cancels the task at its await
CancelRun(run) == IF InFlight(run) THEN [run EXCEPT !.pc = "cancelled"] ELSE run

\* the cron trigger fires the daily job while the scheduler runs
ShFire ==
    /\ shutdown # "returned"
    /\ running
    /\ StartScripted

\* the event loop goes on running the tasks it has
ShSendAnswers == shutdown # "returned" /\ SendAnswers
ShReconnected == shutdown # "returned" /\ Reconnected
ShSleepEnds == shutdown # "returned" /\ SleepEnds

\* SIGINT or SIGTERM: signal_handler sets shutdown_event and main_async
\* leaves its wait
ShutdownSignal ==
    /\ shutdown = "running"
    /\ shutdown' = "signalled"
    /\ UNCHANGED <<lessons, last_category, now, picks, lastPick, resVars,
                   runVars, schedVars, lastDispatch, executing, current_mode,
                   lastSample, callVars, validated, lastInit, candidate,
                   lastValidate, started_by,
                   lastHandled>>

\* await bot_controller.stop_polling()
StopPolling ==
    /\ shutdown = "signalled"
    /\ shutdown' = "polling_stopped"
    /\ UNCHANGED <<lessons, last_category, now, picks, lastPick, resVars,
                   runVars, schedVars, lastDispatch, executing, current_mode,
                   lastSample, callVars, validated, lastInit, candidate,
                   lastValidate, started_by,
                   lastHandled>>

\* await scheduler_service.stop(): scheduler.shutdown(wait=True) empties
\* the job store and the AsyncIOExecutor cancels the job that is running
SchedulerStop ==
    /\ shutdown = "polling_stopped"
    /\ shutdown' = "scheduler_stopped"
    /\ running' = FALSE
    /\ jobs' = <<>>
    /\ runs' = [runs EXCEPT !["cron"] = CancelRun(@)]
    /\ lastReturn' = IdleRun
    /\ UNCHANGED <<lessons, last_category, now, picks, lastPick, resVars,
                   retry_attempts, nruns, delivered, posting_history,
                   missed_tasks, config, missed_events, lastCall,
                   lastDispatch, executing, current_mode, lastSample,
                   callVars, validated, lastInit, candidate, lastValidate,
                   started_by,
                   lastHandled>>

\* bot_controller.close() and the return of main_async: asyncio.run cancels
\* every task that is left
ProcessReturns ==
    /\ shutdown = "scheduler_stopped"
    /\ shutdown' = "returned"
    /\ runs' = [s \in Slots |-> CancelRun(runs[s])]
    /\ lastReturn' = IdleRun
    /\ UNCHANGED <<lessons, last_category, now, picks, lastPick, resVars,
                   retry_attempts, nruns, delivered, posting_history,
                   schedVars, lastDispatch, executing, current_mode,
                   lastSample, callVars, validated, lastInit, candidate,
                   lastValidate, started_by,
                   lastHandled>>

NextShutdown ==
    \/ ShFire
    \/ ShSendAnswers
    \/ ShReconnected
    \/ ShSleepEnds
    \/ ShutdownSignal
    \/ StopPolling
    \/ SchedulerStop
    \/ ProcessReturns

SpecShutdown == Init /\ [][NextShutdown]_vars

\* ------------------------------------------------- selector specification
InitSel ==
    /\ InitLessons
    /\ last_category = NoCategory
    /\ now = 0
    /\ picks = <<>>
    /\ lastPick = NoPick
    /\ InitResilience
    /\ InitRuns
    /\ retry_attempts = default_retry_attempts
    /\ InitStarted
    /\ InitOther

AllUnused(ls) == \A l \in DOMAIN ls : ls[l].usage_count = 0

\* days since the lesson returned was last used, Null when it never was
PickAge(ls, l, t) ==
    IF l = NoLesson THEN Null
    ELSE IF ls[l].last_used = Null THEN Null
    ELSE DaysBetween(t, ls[l].last_used)

\* a call of get_next_lesson(strategy, category_filter)
GetNext(strategy, category_filter) ==
    \E r \in GetNextLesson(lessons, strategy, category_filter, last_category) :
        /\ last_category' = r[2]
        /\ lastPick' = [lesson |-> r[1], strategy |-> strategy,
                        filter |-> category_filter,
                        age |-> PickAge(lessons, r[1], now)]
        /\ IF strategy = "unused_first" /\ category_filter = NoCategory
              /\ Len(picks) < MaxPicks
              /\ (picks = <<>> => AllUnused(lessons))
           THEN picks' = Append(picks, [lesson |-> r[1], marked |-> FALSE])
           ELSE UNCHANGED picks
        /\ UNCHANGED <<lessons, now, resVars, runVars, schedVars, otherVars>>

SelGetNext ==
    \E s \in SelectionStrategy, c \in CategorySet \cup {NoCategory} :
        GetNext(s, c)

\* picks after mark_lesson_posted(l): the run of calls goes on only when the
\* lesson marked is the one the latest call returned
PicksAfterMark(l) ==
    IF picks # <<>> /\ picks[Len(picks)].lesson = l
       /\ ~picks[Len(picks)].marked
    THEN [picks EXCEPT ![Len(picks)].marked = TRUE]
    ELSE <<>>

\* mark_lesson_posted(l) that succeeds
MarkLessonPosted(l) ==
    /\ l \in DOMAIN lessons
    /\ lessons[l].usage_count < MaxUsage
    /\ lessons' = mark_lesson_used(lessons, l, now)
    /\ picks' = PicksAfterMark(l)
    /\ lastPick' = NoPick
    /\ UNCHANGED <<last_category, now, resVars, runVars,
                   schedVars, otherVars>>

SelMarkPosted == \E l \in LessonIds : MarkLessonPosted(l)

\* LessonSelector.reset_usage_cycle that succeeds
ResetUsageCycle ==
    /\ lessons' = reset_usage_cycle(lessons)
    /\ last_category' = NoCategory
    /\ picks' = <<>>
    /\ lastPick' = NoPick
    /\ rotation' = NoCategory
    /\ UNCHANGED <<now, resVars, runVars, schedVars, lastDispatch, executing,
                   current_mode, lastSample, lastCheck, procVars>>

SelTick ==
    \E d \in SelTickDays :
        /\ now + d * DaySeconds <= MaxDay * DaySeconds
        /\ now' = now + d * DaySeconds
        /\ lastPick' = NoPick
        /\ UNCHANGED <<lessons, last_category, picks, resVars, runVars,
                       schedVars, otherVars>>

NextSel == SelGetNext \/ SelMarkPosted \/ ResetUsageCycle \/ SelTick

SpecSel == InitSel /\ [][NextSel]_vars

\* ---------------------------------------------------- cycle specification
\* The usage cycle: lessons are marked used, time passes, the cycle is reset,
\* and check_cycle_reset_needed is asked at any point.
\* check_cycle_reset_needed()
CycCheck ==
    /\ lastCheck' = [needed |-> BoolName(check_cycle_reset_needed(lessons, now)),
                     after_reset |-> lastCheck.after_reset]
    /\ UNCHANGED <<lessons, last_category, now, picks, lastPick, resVars,
                   runVars, schedVars, lastDispatch, executing, current_mode,
                   lastSample, rotation, procVars>>

\* mark_lesson_posted(l) that succeeds
CycMark ==
    \E l \in DOMAIN lessons :
        /\ lessons[l].usage_count < MaxUsage
        /\ lessons' = mark_lesson_used(lessons, l, now)
        /\ lastCheck' = NoCheck
        /\ UNCHANGED <<last_category, now, picks, lastPick, resVars, runVars,
                       schedVars, lastDispatch, executing, current_mode,
                       lastSample, rotation, procVars>>

\* LessonSelector.reset_usage_cycle that succeeds
CycReset ==
    /\ lessons' = reset_usage_cycle(lessons)
    /\ last_category' = NoCategory
    /\ rotation' = NoCategory
    /\ lastCheck' = [NoCheck EXCEPT !.after_reset = TRUE]
    /\ UNCHANGED <<now, picks, lastPick, resVars, runVars, schedVars,
                   lastDispatch, executing, current_mode, lastSample,
                   procVars>>

CycTick ==
    \E d \in SelTickDays :
        /\ now + d * DaySeconds <= MaxDay * DaySeconds
        /\ now' = now + d * DaySeconds
        /\ lastCheck' = NoCheck
        /\ UNCHANGED <<lessons, last_category, picks, lastPick, resVars,
                       runVars, schedVars, lastDispatch, executing,
                       current_mode, lastSample, rotation, procVars>>

NextCycle == CycCheck \/ CycMark \/ CycReset \/ CycTick

SpecCycle == InitSel /\ [][NextCycle]_vars

\* ------------------------------------------------- rotation specification
\* The store holds up to NumRotLessons lessons of any categories, so that a
\* category may be empty and every category may be filled.
InitRot ==
    /\ \E n \in 0..NumRotLessons :
          \E c \in [1..n -> CategorySet] :
              lessons = [l \in 1..n |-> NewLesson(c[l])]
    /\ last_category = NoCategory
    /\ now = 0
    /\ picks = <<>>
    /\ lastPick = NoPick
    /\ InitResilience
    /\ InitRuns
    /\ retry_attempts = default_retry_attempts
    /\ InitStarted
    /\ InitOther

\* a call of get_next_lesson(CATEGORY_ROTATION, category_filter)
RotGetNext ==
    \E category_filter \in CategorySet \cup {NoCategory} :
      \E r \in GetNextLesson(lessons, "category_rotation", category_filter,
                             last_category) :
        /\ last_category' = r[2]
        /\ lastPick' = [lesson |-> r[1], strategy |-> "category_rotation",
                        filter |-> category_filter,
                        age |-> PickAge(lessons, r[1], now)]
        /\ rotation' = IF category_filter = NoCategory /\ r[1] # NoLesson
                       THEN lessons[r[1]].category
                       ELSE rotation
        /\ UNCHANGED <<lessons, now, picks, resVars, runVars, schedVars,
                       lastDispatch, executing, current_mode, lastSample,
                       lastCheck, procVars>>

\* mark_lesson_posted of a lesson not yet used in this cycle
RotMarkPosted ==
    \E l \in DOMAIN lessons :
        /\ lessons[l].usage_count = 0
        /\ MarkLessonPosted(l)

NextRot == RotGetNext \/ RotMarkPosted \/ ResetUsageCycle

SpecRot == InitRot /\ [][NextRot]_vars

\* ------------------------------------------------------- selector claims
PairwiseDistinct(s) ==
    \A i, j \in 1..Len(s) : i # j => s[i].lesson # s[j].lesson

\* C1: a lesson that was marked used is not returned again by
\* get_next_lesson(UNUSED_FIRST) before cycle_days have passed since its
\* last_used, also when no unused lesson remains.
C1_NoRepeatBeforeCycle ==
    (lastPick.strategy = "unused_first" /\ lastPick.lesson # NoLesson
        /\ lastPick.age # Null)
    => lastPick.age >= cycle_days

\* C9 as stated: from N unused lessons, N consecutive calls of
\* get_next_lesson(UNUSED_FIRST) with no mark_lesson_posted in between return
\* N pairwise distinct lessons.
C9_DistinctWithoutMark ==
    ((\A i \in 1..Len(picks) : ~picks[i].marked)
        /\ Len(picks) <= get_lesson_count(lessons))
    => PairwiseDistinct(picks)

\* C9 amended: from N unused lessons, N consecutive calls of
\* get_next_lesson(UNUSED_FIRST), each followed by a successful
\* mark_lesson_posted of the lesson it returned, return N pairwise distinct
\* lessons; with no mark in between every call returns the same lesson.
C9_DistinctWhenMarked ==
    /\ ((\A i \in 1..(Len(picks) - 1) : picks[i].marked)
            /\ Len(picks) <= get_lesson_count(lessons))
        => PairwiseDistinct(picks)
    /\ (\A i \in 1..Len(picks) : ~picks[i].marked)
        => \A i, j \in 1..Len(picks) : picks[i].lesson = picks[j].lesson

\* N >= 2 calls, each marked, have exhausted the store
C9_Witness ==
    /\ Len(picks) >= 2
    /\ Len(picks) = get_lesson_count(lessons)
    /\ \A i \in 1..Len(picks) : picks[i].marked

\* the lessons a call with this category filter chooses among
FilteredLessons(ls, category_filter) ==
    {l \in DOMAIN ls :
        category_filter = NoCategory \/ ls[l].category = category_filter}

\* C21: get_next_lesson(LEAST_RECENT, filter) returns, among the lessons the
\* filter lets through, one with the smallest last_used, a null last_used
\* counting as smaller than every timestamp: when that set holds a
\* never-used lesson, a never-used lesson is returned.
C21_LeastRecentIsSmallest ==
    (lastPick.strategy = "least_recent"
        /\ FilteredLessons(lessons, lastPick.filter) # {})
    => /\ lastPick.lesson \in FilteredLessons(lessons, lastPick.filter)
       /\ \A m \in FilteredLessons(lessons, lastPick.filter) :
              lessons[lastPick.lesson].last_used <= lessons[m].last_used

\* the category after c in the rotation, the first one after none
NextInCycle(c) ==
    IF c = NoCategory THEN categories[1]
    ELSE categories[(CategoryIndex(c) % Len(categories)) + 1]

NonEmpty(ls, c) == \E l \in DOMAIN ls : ls[l].category = c

\* this step is an unfiltered get_next_lesson(CATEGORY_ROTATION) call
UnfilteredRotationCall ==
    /\ lastPick'.strategy = "category_rotation"
    /\ lastPick'.filter = NoCategory

\* C22 as stated: when every category holds a lesson, the lesson an
\* unfiltered CATEGORY_ROTATION call returns is of the category that follows,
\* in the cycle grammar, vocabulary, common_mistakes, the category of the
\* lesson the previous unfiltered call returned (grammar for the first call
\* after construction or reset_usage_cycle), whatever calls lie in between.
C22_Cycle_Step ==
    (UnfilteredRotationCall /\ \A c \in CategorySet : NonEmpty(lessons, c))
    => /\ lastPick'.lesson # NoLesson
       /\ lessons[lastPick'.lesson].category = NextInCycle(rotation)

C22_UnfilteredCallsCycle == [][C22_Cycle_Step]_vars

\* C22 amended: an unfiltered CATEGORY_ROTATION call turns to the category
\* that follows the last dispatched category in the cycle (grammar when
\* nothing was dispatched since construction or reset_usage_cycle): if that
\* category holds a lesson, a lesson of it is returned, so successive
\* unfiltered calls with no category-filtered CATEGORY_ROTATION call in
\* between follow the cycle; if it holds none, a lesson of another non-empty
\* category is returned; the category of the lesson returned becomes the
\* last dispatched category, and no lesson is returned only when every
\* category is empty.
C22_Rotation_Step ==
    UnfilteredRotationCall =>
        LET target == NextInCycle(last_category)
            l == lastPick'.lesson
        IN /\ NonEmpty(lessons, target)
                => (/\ l # NoLesson
                    /\ lessons[l].category = target
                    /\ (rotation = last_category
                            => lessons[l].category = NextInCycle(rotation)))
           /\ (~NonEmpty(lessons, target)
                    /\ \E c \in CategorySet : NonEmpty(lessons, c))
                => (l # NoLesson /\ lessons[l].category # target)
           /\ l # NoLesson => last_category' = lessons[l].category
           /\ l = NoLesson
                <=> \A c \in CategorySet : ~NonEmpty(lessons, c)

C22_RotationFollowsLastDispatched == [][C22_Rotation_Step]_vars

\* three unfiltered calls in a row have reached the last category of the
\* cycle in a store that fills every category
C22_Witness ==
    /\ \A c \in CategorySet : NonEmpty(lessons, c)
    /\ lastPick.strategy = "category_rotation"
    /\ lastPick.filter = NoCategory
    /\ lastPick.lesson # NoLesson
    /\ rotation = categories[Len(categories)]
    /\ last_category = rotation

\* C23: for every strategy, get_next_lesson(strategy, category_filter = c)
\* returns a lesson of category c or no lesson, and no lesson when no lesson
\* has category c.
C23_FilterIsRespected ==
    (lastPick.strategy # "none" /\ lastPick.filter # NoCategory)
    => \/ lastPick.lesson = NoLesson
       \/ lessons[lastPick.lesson].category = lastPick.filter

\* ---------------------------------------------------------- cycle claims
\* C24: from any usage state, a successful reset_usage_cycle() followed at
\* once by check_cycle_reset_needed() yields false, and after the reset
\* every lesson has usage_count = 0 and last_used = null.
C24_CycleIdempotence ==
    lastCheck.after_reset
    => /\ lastCheck.needed # "true"
       /\ \A l \in DOMAIN lessons :
              lessons[l].usage_count = 0 /\ lessons[l].last_used = Null

\* the check right after a reset said false, in a store of two lessons one
\* full cycle after the start
C24_Witness ==
    /\ lastCheck.after_reset
    /\ lastCheck.needed = "false"
    /\ get_lesson_count(lessons) = NumLessons
    /\ now >= cycle_days * DaySeconds

\* C25: check_cycle_reset_needed() returns true exactly when no lesson is
\* unused and the age in days of the globally least recently used lesson
\* exceeds cycle_days, and false in every other case.
C25_ResetNeededExactly ==
    lastCheck.needed # "none"
    => (lastCheck.needed = "true"
        <=> /\ \A l \in DOMAIN lessons : lessons[l].last_used # Null
            /\ \E l \in DOMAIN lessons :
                  /\ \A m \in DOMAIN lessons :
                        lessons[l].last_used <= lessons[m].last_used
                  /\ DaysBetween(now, lessons[l].last_used) > cycle_days)

\* C25 amended: check_cycle_reset_needed() returns true exactly when the
\* store holds a lesson, no lesson is unused and the age in whole days of the
\* globally least recently used lesson is at least cycle_days, and false in
\* every other case.
C25_ResetNeededFromCycleDays ==
    lastCheck.needed # "none"
    => (lastCheck.needed = "true"
        <=> /\ \A l \in DOMAIN lessons : lessons[l].last_used # Null
            /\ \E l \in DOMAIN lessons :
                  /\ \A m \in DOMAIN lessons :
                        lessons[l].last_used <= lessons[m].last_used
                  /\ DaysBetween(now, lessons[l].last_used) >= cycle_days)

\* the check said true for a store whose oldest use is exactly cycle_days old
C25_Witness ==
    /\ lastCheck.needed = "true"
    /\ get_lesson_count(lessons) = NumLessons
    /\ \E l \in DOMAIN lessons :
          DaysBetween(now, lessons[l].last_used) = cycle_days

\* C26: after any sequence of mark_lesson_used and reset_usage_cycle
\* operations on lessons that start unused, every lesson has
\* usage_count = 0 if and only if last_used = null.
C26_UnusedIffNeverUsed ==
    \A l \in DOMAIN lessons :
        lessons[l].usage_count = 0 <=> lessons[l].last_used = Null

\* one lesson was marked twice, the second time after the clock moved, while
\* another one is unused
C26_Witness ==
    /\ \E l \in DOMAIN lessons :
          lessons[l].usage_count = MaxUsage /\ lessons[l].last_used > 0
    /\ \E l \in DOMAIN lessons : lessons[l].usage_count = 0

\* ------------------------------------------------------- pipeline claims
\* C2: in every execution of the daily pipeline, under every interleaving, a
\* lesson's usage_count goes up only in the step in which send_lesson for
\* that lesson returned success, and a lesson's usage_count never exceeds
\* the number of its successful deliveries.
C2_MarkOnlyAfterSuccess ==
    [][\A l \in DOMAIN lessons :
          /\ lessons'[l].usage_count > lessons[l].usage_count
                => /\ lastReturn'.result = "success"
                   /\ lastReturn'.lesson = l
                   /\ delivered'[l] = delivered[l] + 1
          /\ lessons'[l].usage_count <= delivered'[l]]_vars

\* two executions that overlapped both delivered lesson l and both marked
\* it, while another lesson is still unused
C2_Witness ==
    \E l, k \in DOMAIN lessons :
        /\ lessons[l].usage_count = 2
        /\ delivered[l] = 2
        /\ lessons[k].usage_count = 0
        /\ lastReturn.result = "success"

\* C3: executions of the daily publish job never overlap: while one run of
\* _execute_daily_post is in flight no other run of it, the re-run through
\* trigger_immediate_post included, is in flight.
C3_NoOverlap ==
    ~(runs["cron"].pc # "idle" /\ runs["manual"].pc # "idle")

\* a request goes out for the execution in slot s
RequestIssued(s) == runs'[s].pc = "sending" /\ runs[s].pc # "sending"

\* C4: no delivery request is issued while the 'telegram_api' breaker is
\* open: a send that starts with the breaker open returns a failure marked
\* circuit_breaker_open with attempts = 0, and once the breaker is open no
\* attempt of a retry loop reaches the channel.
C4_NoRequestWhileOpen ==
    [][circuit_breakers["telegram_api"].state = "open"
          => /\ \A s \in Slots : ~RequestIssued(s)
             /\ (nruns' = nruns + 1 /\ DOMAIN lessons # {})
                   => /\ lastReturn'.result = "failure"
                      /\ lastReturn'.circuit_breaker_open
                      /\ lastReturn'.attempts = 0
                      /\ lastReturn'.lesson # NoLesson]_vars

\* a send that started with the breaker open has returned
C4_Witness ==
    /\ lastReturn.circuit_breaker_open
    /\ lastReturn.attempts = 0
    /\ lastReturn.result = "failure"
    /\ circuit_breakers["telegram_api"].state = "open"

\* -------------------------------------------------------- breaker claims
\* C5: a breaker leaves state open only to half_open, only by the sweep, and
\* only when more than the open timeout has passed since its last recorded
\* failure; nothing moves it from open straight to closed.
C5_OnlySweepLeavesOpen ==
    [][\A n \in BreakerNames :
          (circuit_breakers[n].state = "open"
              /\ circuit_breakers'[n].state # "open")
          => /\ circuit_breakers'[n].state = "half_open"
             /\ now - circuit_breakers[n].last_failure > breaker_timeout
             /\ circuit_breakers' =
                    UpdateCircuitBreakers(circuit_breakers, now)]_vars

\* the sweep has moved a breaker to half_open after its timeout
C5_Witness ==
    \E n \in BreakerNames :
        /\ circuit_breakers[n].state = "half_open"
        /\ circuit_breakers[n].last_failure # Null
        /\ now - circuit_breakers[n].last_failure > breaker_timeout

\* C6: a breaker's failure counter goes to zero only by RecordSuccess, the
\* return from half_open to closed included; no other step, the sweep and
\* the recovery actions in particular, resets it.
C6_ResetOnlyBySuccess ==
    [][\A n \in BreakerNames :
          (circuit_breakers[n].failure_count > 0
              /\ circuit_breakers'[n].failure_count = 0)
          => circuit_breakers' =
                 record_circuit_breaker_success(circuit_breakers, n)]_vars

\* C7: a single RecordFailure on a breaker in state half_open moves it back
\* to open.
C7_HalfOpenFailureOpens ==
    [][\A n \in BreakerNames :
          (circuit_breakers[n].state = "half_open"
              /\ circuit_breakers' =
                     record_circuit_breaker_failure(circuit_breakers, n, now))
          => circuit_breakers'[n].state = "open"]_vars

C10_RetryOutcome ==
    (lastReturn.clean /\ lastReturn.lesson # NoLesson)
    => /\ lastReturn.requests <= retry_attempts + 1
       /\ lastReturn.result = "success" <=> lastReturn.f <= retry_attempts
       /\ lastReturn.result = "success"
             => lastReturn.attempts = lastReturn.f + 1
       /\ lastReturn.result = "failure"
             => lastReturn.attempts = retry_attempts + 1
       /\ lastReturn.sleeps = Min2(lastReturn.f, retry_attempts)

\* C11: every backoff sleep of the retry loop follows a failed attempt i <
\* retry_attempts and lasts exactly retry_delay * 2^i; successive backoff
\* sleeps are strictly increasing; none follows the final attempt.
BackoffSleeps(run) ==
    SelectSeq(run.sleep_log, LAMBDA e : e.why = "backoff")

C11_BackoffGrowth ==
    \A run \in {runs["cron"], lastReturn} :
        LET b == BackoffSleeps(run)
        IN /\ \A k \in 1..Len(b) :
                 /\ b[k].attempt < retry_attempts
                 /\ b[k].secs = retry_delay * (2 ^ b[k].attempt)
           /\ \A j, k \in 1..Len(b) : j < k => b[j].secs < b[k].secs
           /\ run.kind \in TransientKinds
                 => \A k \in 1..Len(b) : b[k].attempt = k - 1

\* a send slept three times with backoff: 60, 120 and 240 seconds
C11_Witness ==
    /\ lastReturn.kind \in TransientKinds
    /\ Len(BackoffSleeps(lastReturn)) >= 3
    /\ BackoffSleeps(lastReturn)[3].secs = 4 * retry_delay

\* C12: a send whose first f <= retry_attempts attempts are answered with
\* RetryAfter(t) waits exactly t seconds after each of them, with no backoff
\* sleep, makes the next attempt each time, and so returns success with
\* attempts = f + 1 (f = 1: a rate limit, then a success, gives attempts = 2).
C12_RateLimitWait ==
    (/\ lastReturn.kind = "retry_after"
     /\ lastReturn.requests >= 1
     /\ lastReturn.f <= retry_attempts)
    => /\ Len(lastReturn.sleep_log) = lastReturn.f
       /\ \A k \in 1..Len(lastReturn.sleep_log) :
             lastReturn.sleep_log[k] = [why |-> "rate_limit",
                                        secs |-> lastReturn.wait,
                                        attempt |-> k - 1]
       /\ lastReturn.requests = lastReturn.f + 1
       /\ lastReturn.result = "success"
       /\ lastReturn.attempts = lastReturn.f + 1

\* C13: a BadRequest or Forbidden answer to attempt i ends the send in the
\* same step: no run is in flight after such an answer, no further request
\* and no sleep follow it, the result is a failure with permanent_error set
\* and attempts = i + 1, and the failure is reported with severity High, by
\* the send itself and again by the pipeline (after resilient_operation's
\* own Medium report of the raised exception).
C13_PermanentErrorEndsSend ==
    /\ runs["cron"].last = "bad_request"
          => runs["cron"].nfail <= runs["cron"].f
    /\ (lastReturn.last = "bad_request" /\ lastReturn.nfail > lastReturn.f)
          => /\ lastReturn.outcome = "bad_request"
             /\ lastReturn.requests = lastReturn.attempt + 1
             /\ \A k \in 1..Len(lastReturn.sleep_log) :
                   lastReturn.sleep_log[k].attempt < lastReturn.attempt
             /\ lastReturn.result = "failure"
             /\ lastReturn.permanent_error
             /\ lastReturn.attempts = lastReturn.attempt + 1
             /\ lastReturn.reports = <<"medium", "high", "high">>

\* a permanent error on the third attempt, after two backoff sleeps
C13_Witness ==
    /\ lastReturn.outcome = "bad_request"
    /\ lastReturn.attempt = 2
    /\ Len(lastReturn.sleep_log) >= 2

\* ---------------------------------------------- pipeline claims, continued
\* C14: every execution of _execute_daily_post that returns has added
\* exactly one entry to the posting history, and that entry has success =
\* false unless the delivery succeeded.
C14_OneHistoryEntry ==
    [][lastReturn' # IdleRun
       => /\ Len(posting_history') = Len(posting_history) + 1
          /\ posting_history'[Len(posting_history')].success
                = (lastReturn'.result = "success")]_vars

\* C15: an execution for which the selector had no lesson builds one failed
\* history entry with a null lesson id and returns with no call of
\* handle_operation_failure.
C15_NoLessonNotEscalated ==
    (/\ lastReturn.result = "failure"
     /\ lastReturn.lesson = NoLesson
     /\ get_lesson_count(lessons) = 0)
    => /\ lastReturn.history = <<PostingHistory(Null, FALSE, 1)>>
       /\ lastReturn.reports = <<>>

\* ------------------------------------------------------ scheduler claims
JobsWithId(id) == {i \in 1..Len(jobs) : jobs[i].id = id}

\* C16: the job store never holds two quiz jobs for one lesson id, and
\* after a successful post of lesson l with quizzes enabled the one pending
\* quiz job of l is the one just registered (run date now + quiz delay).
C16_OneQuizJobPerLesson ==
    \A l \in LessonIds :
        /\ Cardinality(JobsWithId(QuizJobId(l))) <= 1
        /\ (/\ lastReturn.result = "success"
            /\ lastReturn.lesson = l
            /\ config.enable_quizzes)
           => (\E i \in JobsWithId(QuizJobId(l)) :
                   jobs[i] = QuizJob(l, config, now))

\* lesson l was posted a second time, one tick after the first post, and
\* its quiz job carries the later run date
C16_Witness ==
    \E l \in LessonIds :
        /\ delivered[l] = 2
        /\ lastReturn.result = "success"
        /\ lastReturn.lesson = l
        /\ JobsWithId(QuizJobId(l)) # {}
        /\ \A i \in JobsWithId(QuizJobId(l)) :
              jobs[i].run_date = TickSeconds + quiz_delay_minutes * 60

\* C17: after any sequence of start, stop and reschedule_daily_posting
\* calls the job store holds at most one job with id 'daily_lesson_post';
\* after a reschedule that returned True it holds exactly one, with the new
\* time and, if one was given, the new timezone.
C17_OneDailyJob ==
    /\ Cardinality(JobsWithId(daily_job_id)) <= 1
    /\ lastCall.result = "true"
          => (\E i \in 1..Len(jobs) :
                  /\ JobsWithId(daily_job_id) = {i}
                  /\ jobs[i].hour = lastCall.new_time[1]
                  /\ jobs[i].minute = lastCall.new_time[2]
                  /\ jobs[i].timezone = config.timezone
                  /\ (lastCall.new_timezone # NoTimezone
                        => jobs[i].timezone = lastCall.new_timezone))

\* a running scheduler with a pending quiz job was rescheduled to a new
\* time and timezone
C17_Witness ==
    /\ running
    /\ lastCall.result = "true"
    /\ lastCall.new_timezone # NoTimezone
    /\ Len(jobs) >= 2

\* what a step does with missed events and the tasks created for them
C18_Step ==
    /\ (missed_events'.daily = missed_events.daily + 1)
          => (/\ missed_tasks' = missed_tasks + 1
              /\ jobs' = jobs)
    /\ (missed_events'.quiz = missed_events.quiz + 1)
          => (/\ missed_tasks' = missed_tasks
              /\ runs' = runs
              /\ nruns' = nruns
              /\ Len(jobs') = Len(jobs) - 1)
    /\ (missed_tasks' < missed_tasks)
          => (/\ missed_tasks' = missed_tasks - 1
              /\ nruns' = nruns + 1
              /\ runs["manual"].pc = "idle")
    /\ (missed_tasks' > missed_tasks)
          => (missed_events'.daily = missed_events.daily + 1)

\* C18: a missed event for the daily job creates one immediate-post task,
\* every such task starts one execution of the pipeline, and it does start;
\* a missed event for a quiz job creates no task, starts no execution, and
\* the quiz job is gone.
C18_MissedDailyRunsOnce ==
    /\ [][C18_Step]_vars
    /\ (missed_tasks > 0) ~> (missed_tasks = 0)

\* the daily job and a quiz job were both missed, and the immediate post
\* for the daily job is under way
C18_Witness ==
    /\ missed_events.daily = 1
    /\ missed_events.quiz = 1
    /\ missed_tasks = 0
    /\ runs["manual"].pc = "sending"

\* ------------------------------------------------------- recovery claims
\* C19: for every registered recovery action, the executions started in the
\* cooldown_seconds up to and including any start number at most
\* max_attempts, and a dispatch that finds max_attempts recent starts
\* returns False without starting the action.
C19_RecoveryStormBound ==
    /\ \A name \in ActionNames :
          LET h == action_history[name]
          IN \A k \in 1..Len(h) :
                 Cardinality({j \in 1..Len(h) :
                                 /\ h[j] <= h[k]
                                 /\ h[k] - h[j] <
                                       RecoveryActions[name].cooldown_seconds})
                     <= RecoveryActions[name].max_attempts
    /\ (/\ lastDispatch.name \in ActionNames
        /\ lastDispatch.result # "none"
        /\ lastDispatch.recent
              >= RecoveryActions[lastDispatch.name].max_attempts)
       => (lastDispatch.result = "false" /\ ~lastDispatch.started)

\* network_reconnection was refused while its five executions started in
\* the last minute were still asleep
C19_Witness ==
    /\ lastDispatch.name = "network_reconnection"
    /\ lastDispatch.result = "false"
    /\ lastDispatch.recent = 5
    /\ executing = 5

\* --------------------------------------------------- resource mode claims
\* the mode one resource implies on its own, and the order of severity
ResourceMode(percent, normal_max, degraded_max, minimal_max) ==
    IF percent > minimal_max THEN "emergency"
    ELSE IF percent > degraded_max THEN "minimal"
    ELSE IF percent > normal_max THEN "degraded"
    ELSE "normal"

ModeSeverity(mode) ==
    CASE mode = "normal" -> 0
      [] mode = "degraded" -> 1
      [] mode = "minimal" -> 2
      [] mode = "emergency" -> 3

ImpliedModes(sample) ==
    {ResourceMode(sample.cpu, cpu_normal_max, cpu_degraded_max,
                  cpu_minimal_max),
     ResourceMode(sample.memory, memory_normal_max, memory_degraded_max,
                  memory_minimal_max),
     ResourceMode(sample.disk, disk_normal_max, disk_degraded_max,
                  disk_minimal_max)}

\* C20: for every CPU, memory and disk reading, _determine_system_mode
\* returns the most severe of the modes the three resources imply one by
\* one: some resource implies the returned mode and none implies a more
\* severe one.
C20_MostSevereMode ==
    lastSample.mode # "none" =>
        /\ lastSample.mode \in ImpliedModes(lastSample)
        /\ \A m \in ImpliedModes(lastSample) :
               ModeSeverity(m) <= ModeSeverity(lastSample.mode)

\* the disk alone is above its degraded ceiling and the monitor has moved
\* the service to minimal mode
C20_Witness ==
    /\ lastSample.mode = "minimal"
    /\ lastSample.cpu <= cpu_normal_max
    /\ lastSample.memory <= memory_normal_max
    /\ lastSample.disk = disk_degraded_max + 1
    /\ current_mode = "minimal"
    /\ Len(action_history["aggressive_cleanup"]) = 1

\* ------------------------------------------------------- shutdown claims
\* a request goes out in this step for the run in slot s
AttemptStarts(s) ==
    /\ runs'[s].pc = "sending"
    /\ (runs[s].pc # "sending" \/ runs'[s].attempt # runs[s].attempt)

\* C27: once the shutdown signal has been observed no new delivery attempt
\* is started, and a retry loop that is in flight finishes the attempt it
\* is at: its request is answered, not cancelled.
C27_Step ==
    shutdown # "running" =>
        \A s \in Slots :
            /\ ~AttemptStarts(s)
            /\ runs[s].pc = "sending" => runs'[s].pc # "cancelled"

C27_GracefulShutdown == [][C27_Step]_vars

\* -------------------------------------------------------- startup claims
\* what the specification requires of a configuration
ValidConfiguration(cfg) ==
    /\ Len(cfg.posting_time) = 2
    /\ cfg.posting_time[1] \in 0..23
    /\ cfg.posting_time[2] \in 0..59
    /\ cfg.timezone \in KnownTimezones
    /\ cfg.retry_attempts >= 0
    /\ cfg.retry_delay >= 0
    /\ cfg.quiz_delay_minutes >= 0
    /\ cfg.max_cpu_percent \in 0..100
    /\ cfg.max_memory_percent \in 0..100
    /\ cfg.max_disk_percent \in 0..100
    /\ cfg.circuit_breaker_threshold >= 1
    /\ cfg.circuit_breaker_timeout >= 0

\* C28: Config.validate fails for every configuration that breaks one of
\* the constraints on posting time, timezone, retry attempts and delay,
\* quiz delay, resource thresholds, breaker threshold and breaker timeout,
\* and succeeds only when all of them hold.
C28_ValidateRejectsInvalid ==
    lastValidate = "ok" => ValidConfiguration(candidate)

\* no request has gone to the channel and no send is under way
NoRequestYet ==
    /\ nruns = 0
    /\ \A s \in Slots : runs[s].pc = "idle"
    /\ \A l \in LessonIds : delivered[l] = 0

C29_Step ==
    /\ (validated' /\ ~validated)
         => /\ lastInit'.token_ok
            /\ lastInit'.permissions_ok
            /\ lastInit'.result = "true"
    /\ (~validated /\ lastReturn' # lastReturn)
         => lastReturn'.result = "raised"

\* C29: the controller's validated flag is false initially and becomes true
\* only in an initialize() whose token validation and channel-permission
\* verification both succeeded; while it is false send_lesson raises and no
\* request goes to the channel.
C29_NoSendBeforeInitialize ==
    /\ ~validated
    /\ [][C29_Step]_vars
    /\ [](~validated => NoRequestYet)

\* send_lesson raised after an initialize() that found a valid token but no
\* permission to post
C29_Witness ==
    /\ ~validated
    /\ lastInit.token_ok
    /\ lastInit.result = "false"
    /\ lastReturn.result = "raised"

\* -------------------------------------------------------- re-probe claims
\* the instants the breakers' clock takes
SweepTimes == {k * SweepSeconds : k \in 0..(MaxSweepClock \div SweepSeconds)}

\* the instants after which the clock still passes the open timeout
ElapsingTimes == {t \in SweepTimes : t + breaker_timeout < MaxSweepClock}

\* C30: in the process as started by main, a breaker that is open and has
\* no further failure recorded eventually leaves the open state once the
\* open timeout has elapsed; it never stays open forever.
C30_OpenBreakerReprobed ==
    \A n \in BreakerNames : \A t \in ElapsingTimes :
        (/\ started_by = "main"
         /\ circuit_breakers[n].state = "open"
         /\ circuit_breakers[n].last_failure = t)
        ~> (\/ circuit_breakers[n].state # "open"
            \/ circuit_breakers[n].last_failure # t)

\* the same of the process started by initialize_system_services
StartedBreakerReprobed ==
    \A n \in BreakerNames : \A t \in ElapsingTimes :
        (/\ started_by = "initialize_system_services"
         /\ circuit_breakers[n].state = "open"
         /\ circuit_breakers[n].last_failure = t)
        ~> (\/ circuit_breakers[n].state # "open"
            \/ circuit_breakers[n].last_failure # t)

\* ------------------------------------------------- breaker counting claims
\* the send returned a failure after its last attempt, or after a BadRequest
\* or Forbidden answer
TerminalFailure(run) ==
    /\ run.f # Free
    /\ run.lesson # NoLesson
    /\ run.result = "failure"
    /\ \/ run.permanent_error
       \/ /\ run.requests = retry_attempts + 1
          /\ run.outcome # "unexpected"

\* C31: a pipeline execution whose delivery ends in terminal failure
\* (retries exhausted, or a permanent error) leaves the 'telegram_api'
\* breaker's failure_count exactly one above what it was when the execution
\* started, however many attempts were made.
C31_OneFailurePerExecution ==
    TerminalFailure(lastReturn)
    => circuit_breakers["telegram_api"].failure_count
          = lastReturn.failures_before + 1

\* the request in flight of the scripted run is one the channel answers
\* with RetryAfter
RateLimitedAttempt ==
    /\ runs["cron"].pc = "sending"
    /\ runs["cron"].kind = "retry_after"
    /\ runs["cron"].nfail < runs["cron"].f

C32_Step ==
    (RateLimitedAttempt /\ runs'["cron"] # runs["cron"])
    => /\ circuit_breakers'["telegram_api"].failure_count
             = circuit_breakers["telegram_api"].failure_count
       /\ circuit_breakers'["telegram_api"].state
             = circuit_breakers["telegram_api"].state

\* C32: a delivery attempt that is answered with a rate-limit signal
\* (RetryAfter) leaves the 'telegram_api' breaker's failure_count and state
\* unchanged.
C32_RateLimitNotCounted == [][C32_Step]_vars

\* the execution that returns in this step was pre-empted by the open
\* 'telegram_api' breaker and leaves that breaker as it was
PreemptedLeavesBreaker_Step ==
    lastReturn'.circuit_breaker_open
    => circuit_breakers'["telegram_api"] = circuit_breakers["telegram_api"]

PreemptedLeavesBreaker == [][PreemptedLeavesBreaker_Step]_vars

C33_Step ==
    lastReturn'.circuit_breaker_open
    => /\ Len(posting_history') = Len(posting_history) + 1
       /\ ~posting_history'[Len(posting_history')].success
       /\ PreemptedLeavesBreaker_Step

\* C33: a pipeline run that is pre-empted because the 'telegram_api'
\* breaker is open records one failed posting attempt and leaves that
\* breaker's failure_count, last_failure and state unchanged.
C33_PreemptedRunRecorded == [][C33_Step]_vars

\* a run was pre-empted by the open breaker
PreemptedRun == lastReturn.circuit_breaker_open

\* a scripted run returned with a delivery failure
DeliveryFailure(run) ==
    /\ run.f # Free
    /\ run.lesson # NoLesson
    /\ run.result = "failure"

\* C39: a daily publish run that ends with a delivery failure leaves
\* consecutive_failures strictly greater than it was when the run started.
C39_FailuresAccumulate ==
    DeliveryFailure(lastReturn)
    => consecutive_failures > lastReturn.consecutive_before

\* ------------------------------------------------- follow-up job claims
\* the step registers a quiz job for lesson l, or replaces the one there is
QuizRegistered(l) ==
    \E i \in 1..Len(jobs') :
        /\ jobs'[i].id = QuizJobId(l)
        /\ \A k \in 1..Len(jobs) : jobs[k] # jobs'[i]

C38_Step ==
    /\ \A l \in LessonIds :
          QuizRegistered(l)
          => /\ lastReturn'.result = "success"
             /\ lastReturn'.lesson = l
             /\ delivered'[l] = delivered[l] + 1
             /\ config.enable_quizzes
    /\ (lastReturn' # IdleRun /\ lastReturn'.result # "success")
       => jobs' = jobs

\* C38: a quiz job for a lesson is registered only by the run that published
\* that lesson successfully, and only when quizzes are enabled; a run that
\* returns failed, pre-empted or without a lesson registers no job.
C38_QuizOnlyAfterPublish == [][C38_Step]_vars

\* a quiz job was registered for a published lesson, and then a run failed
\* and left the job as it was
C38_Witness ==
    /\ lastReturn # IdleRun
    /\ lastReturn.result = "failure"
    /\ \E i \in 1..Len(jobs) : jobs[i].trigger = "date"

\* a run ended without a lesson, or pre-empted, with quizzes enabled
C38_NoSendWitness ==
    /\ lastReturn # IdleRun
    /\ lastReturn.lesson = NoLesson \/ lastReturn.circuit_breaker_open
    /\ config.enable_quizzes

\* ------------------------------------------------ failure handling claims
\* the recovery action the severity selects
SelectedAction(severity) ==
    CASE severity = "critical" -> "emergency_recovery"
      [] severity = "high" -> "system_restart"
      [] OTHER -> "service_restart"

C34_Step ==
    (lastHandled'.severity # "none" /\ HandleFailure)
    => /\ consecutive_failures' = consecutive_failures + 1
       /\ (consecutive_failures' >= consecutive_failure_threshold)
             => /\ lastHandled'.action = SelectedAction(lastHandled'.severity)
                /\ lastHandled'.ran
       /\ (consecutive_failures' < consecutive_failure_threshold)
             => /\ lastHandled'.action = "none"
                /\ ~lastHandled'.ran
                /\ lastHandled'.result = "true"

\* C34: handle_operation_failure adds one to consecutive_failures; when the
\* counter reaches consecutive_failure_threshold the recovery action selected
\* by the severity is run (emergency_recovery for critical, system_restart
\* for high, service_restart otherwise); below the threshold no action is run
\* and True is returned.
C34_FailureEscalation == [][C34_Step]_vars

\* ----------------------------------------------------- system mode claims
\* a step of one of the two sampling loops, and a step of a client
SamplingStep == ResourceLoop \/ RecoveryLoop

ClientStep ==
    \/ HandleFailure
    \/ HandleNetworkError
    \/ ClientRecordsFailure
    \/ ClientRecordsSuccess
    \/ Sweep

C35_Step ==
    (current_mode' # current_mode) => (SamplingStep /\ ~ClientStep)

\* C35: current_mode is changed only by the periodic resource sampling:
\* handle_operation_failure, handle_network_error, the breakers' record and
\* sweep operations and the dispatch of recovery actions leave it unchanged,
\* for any number and order of failures.
C35_ModeChangedOnlyBySampling == [][C35_Step]_vars

\* the mode came back to normal after a degradation, and since then five
\* failures, two network errors and an opened breaker have left it normal
C35_Witness ==
    /\ current_mode = "normal"
    /\ action_history["cleanup_resources"] # <<>>
    /\ consecutive_failures = consecutive_failure_threshold
    /\ lastHandled.result = "false"
    /\ network_error_count = MaxNetworkErrors
    /\ circuit_breakers["telegram_api"].state = "open"

C36_Step ==
    (lastSample'.trigger = "recovery_opportunity" /\ RecoveryLoop)
    => LET target == lastSample'.mode
       IN /\ (current_mode' # current_mode)
                => ModeSeverity(current_mode') < ModeSeverity(current_mode)
          /\ (ModeSeverity(target) < ModeSeverity(current_mode))
                => (current_mode' # current_mode)

\* C36: _check_recovery_opportunities changes the mode only to a strictly
\* less severe one in the order normal < degraded < minimal < emergency: for
\* every current mode and every mode the resources imply it never raises the
\* severity, and it never leaves the mode unchanged when the implied mode is
\* less severe.
C36_RecoveryOnlyImproves == [][C36_Step]_vars

C37_Step ==
    (current_mode' = "normal" /\ current_mode # "normal")
    => /\ consecutive_failures' = 0
       /\ network_error_count' = 0

\* C37: whenever current_mode changes to normal, consecutive_failures and
\* network_error_count are both zero when the transition completes.
C37_NormalResetsCounters == [][C37_Step]_vars

\* the mode is back to normal after a degradation; every counted failure
\* and network error is younger than that
C37_Witness ==
    /\ current_mode = "normal"
    /\ lastSample.mode = "normal"
    /\ action_history["aggressive_cleanup"] # <<>>
    /\ action_history["emergency_cleanup"] = <<>>
    /\ consecutive_failures = 0
    /\ network_error_count = 0
    /\ lastHandled.severity = "high"

\* ---------------------------------------------------- reschedule claims
\* a malformed time, an hour outside 0..23, a minute outside 0..59, or a
\* timezone that is given and unknown
InvalidReschedule(new_time, new_timezone) ==
    \/ Len(new_time) # 2
    \/ new_time[1] < 0 \/ new_time[1] > 23
    \/ new_time[2] < 0 \/ new_time[2] > 59
    \/ (new_timezone # NoTimezone /\ new_timezone \notin KnownTimezones)

\* some call of reschedule_daily_posting with an invalid time or timezone
InvalidRescheduleCall ==
    \E new_time \in TimeInputs, new_timezone \in TimezoneInputs :
        /\ InvalidReschedule(new_time, new_timezone)
        /\ RescheduleDailyPosting(new_time, new_timezone)

C40_Step ==
    InvalidRescheduleCall
    => /\ lastCall'.result = "false"
       /\ jobs' = jobs
       /\ config'.posting_time = config.posting_time
       /\ config'.timezone = config.timezone

\* C40: reschedule_daily_posting called with a malformed time, an hour
\* outside 0..23, a minute outside 0..59 or an unknown timezone returns
\* False and leaves the daily job, config.posting_time and config.timezone
\* as they were.
C40_InvalidRescheduleRejected == [][C40_Step]_vars

\* a call was rejected after an earlier one had moved the daily job to 21:30
C40_Witness ==
    /\ lastCall.result = "false"
    /\ running
    /\ HasJob(jobs, daily_job_id)
    /\ config.posting_time = <<21, 30>>

====
